---- MODULE Spec2Model ----
(***************************************************************************)
(* A model of MQA_identifier: the batch drivers (the sequential driver of  *)
(* src/main.cc, the bounded pool of src/verify.sh, the unbounded async     *)
(* driver of src/unnamed/part_001), the per-file task processFile with its *)
(* two mutexes, the two atomic counters and the error ledger, and the      *)
(* bit-plane scanner MQA_identifier::detect of src/unnamed/part_000.       *)
(*                                                                         *)
(* Threads: the main thread is -1, task t (the t-th discovered file, the   *)
(* value of `index` in processFile) is t, and 0 is "no owner" of a mutex.  *)
(*                                                                         *)
(* Environment: what the filesystem, the FLAC library and the metadata     *)
(* library answer is chosen nondeterministically at the step that asks.    *)
(* An exception is raised only where the sources themselves raise or       *)
(* handle one (header validation, decoder construction, detect(), the body *)
(* of tagFile); allocation failure elsewhere is not modelled.              *)
(***************************************************************************)
EXTENDS Integers, Sequences, FiniteSets, TLC

\* Bound: the number of path arguments given on the command line (each names
\* at most one file here), hence the largest number of tasks of a run.
MaxFiles ==
    3

\* Bound: the values std::thread::hardware_concurrency() is asked for when the
\* cap rule is evaluated as a function (0 .. MaxHw).
MaxHw ==
    20

Tasks ==
    1..MaxFiles

VARIABLES
    dry_run,              \* --dry-run
    verbose_logging,      \* -v
    hardware_concurrency, \* what std::thread::hardware_concurrency() returns
    max_threads,          \* the pool cap computed from it (0 before it is set)
    argn,                 \* number of input_paths already traversed
    input_paths,          \* what each path argument names (fixed by the arguments)
    exit_code,            \* what main returned (-1 while it runs)
    report,               \* the error summary of mqa_identifier.log, once written
    files,                \* the discovered files, in discovery order (path ids)
    mainPc,               \* position of the main thread
    it,                   \* the iterator of the main thread over `futures`
    count,                \* main's `count`: number of tasks launched so far
    futures,              \* the futures vector: task ids, oldest first
    pc,                   \* position of each task
    outcome,              \* what validation / construction / detect() gave
    tagRes,               \* what the metadata library answered to tagFile
    console_mutex,        \* owner of console_mutex
    status_lines,         \* the per-file status lines std::cout got, by task
    log_mutex,            \* owner of log_mutex
    scanned_count,        \* std::atomic<size_t> scanned_count
    mqa_count,            \* std::atomic<size_t> mqa_count
    scan_errors,          \* the ledger: reason -> paths in insertion order
    bps,                  \* decoder.bps of the stream handed to detect()
    samples,              \* decoder.samples: pairs <<left, right>>
    idx,                  \* 0-based index of the sample the scanner loop is at
    buffer,               \* the shift register of bit offset 0
    buffer1,              \* the shift register of bit offset 1
    buffer2,              \* the shift register of bit offset 2
    dpc,                  \* position of detect(): idle, init, loop, decoded,
                          \* scan, returned, crashed
    retval,               \* what detect() returned
    isMQA_,               \* MQA_identifier::isMQA_
    isMQAStudio_,         \* MQA_identifier::isMQAStudio_
    original_sample_rate, \* decoder.original_sample_rate
    error_message_,       \* MQA_identifier::error_message_
    moff,                 \* the branch that matched (bit offset), -1 if none
    midx,                 \* the sample index of the match, -1 if none
    orsf,                 \* the rate code read in the matched branch
    provenance,           \* the provenance value read in the matched branch
    flac,                 \* the file: STREAMINFO fields, frame size, audio
    sample_rate,          \* decoder.sample_rate
    channels,             \* decoder.channels
    decoded_samples,      \* decoder.decoded_samples
    dec_error,            \* decoder.error_message
    ok,                   \* the local `ok` of decode()
    dec_state,            \* what decoder.get_state() answers
    code,                 \* the argument c of a call of OriginalSampleRateDecoder
    rate,                 \* what the call returned (0 before it returns)
    rpc,                  \* position of the call: idle, call, returned, threw
    has_vc,               \* the file on disk has a VorbisComment block
    comments,             \* its comments on disk: <<field name, value>>, in order
    original_rate,        \* the argument original_rate of tagFile
    writes,               \* number of chain.write() calls that changed the file
    tcalls,               \* number of tagFile calls made on the file
    tree,                 \* the directory tree: kind and permissions of each node
    scan_roots,           \* the path arguments, as nodes of the tree
    scan_stack,           \* the active calls of recursiveScan on directories
    prev_files,           \* `files` at the end of the previous run on the tree
    scan_run              \* which run on the tree this is (0: none)

orchVars ==
    <<dry_run, verbose_logging, hardware_concurrency, max_threads, argn, input_paths, exit_code, report, files,
      mainPc, it, count, futures, pc, outcome, tagRes, console_mutex,
      status_lines, log_mutex, scanned_count, mqa_count, scan_errors>>

\* The file and the fields of MyDecoder that decode() and its callbacks set.
decVars ==
    <<flac, sample_rate, channels, decoded_samples, dec_error, ok, dec_state>>

\* A call of OriginalSampleRateDecoder looked at on its own.
rateVars ==
    <<code, rate, rpc>>

\* tagFile called on one file, looked at on its own.
tagVars ==
    <<has_vc, comments, original_rate, writes, tcalls>>

\* recursiveScan looked at on its own, over a directory tree.
scanVars ==
    <<tree, scan_roots, scan_stack, prev_files, scan_run>>

detVars ==
    <<bps, samples, idx, buffer, buffer1, buffer2, dpc, retval, isMQA_,
      isMQAStudio_, original_sample_rate, error_message_, moff, midx, orsf, provenance, decVars,
      rateVars, tagVars, scanVars>>

vars ==
    <<orchVars, detVars>>

(***************************************************************************)
(* The ledger                                                              *)
(***************************************************************************)

\* The reason strings of log_skip, by the place that records them.
ReasonMissing ==
    "Path does not exist"

ReasonBadHeader ==
    "Not a valid FLAC file"

ReasonCannotOpen ==
    "Invalid FLAC: Cannot open file"

ReasonTooSmall ==
    "Invalid FLAC: File too small or unreadable"

ReasonCtor ==
    "Failed to create decoder"

ReasonDetectThrew ==
    "detect() failed"

ReasonUnsupported ==
    "Unsupported Audio Format"

ReasonDecode ==
    "Decoding failed"

ReasonTagRead ==
    "Failed to read metadata chain"

ReasonTagBlock ==
    "Failed to create new VorbisComment block"

ReasonTagWrite ==
    "Failed to write metadata changes"

\* The prefixes of the reasons recursiveScan records for an exception of the
\* filesystem library (e.what() follows them).
ReasonFsEntry ==
    "Filesystem Error"

ReasonAccess ==
    "Access Denied / Filesystem Error"

ReasonTagExc ==
    "Tagging error"

Reasons ==
    {ReasonMissing, ReasonBadHeader, ReasonCannotOpen, ReasonTooSmall,
     ReasonCtor, ReasonDetectThrew, ReasonUnsupported, ReasonDecode,
     ReasonTagRead, ReasonTagBlock, ReasonTagWrite, ReasonTagExc,
     ReasonFsEntry, ReasonAccess}

\* A push_back that is lost: the ledger is left as it was.
LedgerAppendDropped(ledger, reason, path) ==
    ledger

\* scan_errors[reason].push_back(path)
LedgerAppend(ledger, reason, path) ==
    [ledger EXCEPT ![reason] = Append(@, path)]

RECURSIVE SumLen(_, _)
SumLen(ledger, rs) ==
    IF rs = {} THEN 0
    ELSE LET r == CHOOSE x \in rs : TRUE
         IN  Len(ledger[r]) + SumLen(ledger, rs \ {r})

\* Number of entries of the ledger, over all reasons.
LedgerSize ==
    SumLen(scan_errors, Reasons)

\* The path of task t: the t-th discovered file.
PathOf(t) ==
    files[t]

(***************************************************************************)
(* Mutexes: std::lock_guard<std::mutex> on console_mutex and log_mutex     *)
(***************************************************************************)

\* log_skip without its lock_guard: the mutex is not touched.
LogSkipLockNoGuard(th) ==
    log_mutex' = log_mutex

\* lock_guard's constructor on log_mutex in log_skip: blocks until free.
LogSkipLock(th) ==
    /\ log_mutex = 0
    /\ log_mutex' = th

\* lock_guard's constructor on log_mutex in log_message.
LogMessageLock(th) ==
    /\ log_mutex = 0
    /\ log_mutex' = th

\* lock_guard's constructor on console_mutex.
ConsoleLock(th) ==
    /\ console_mutex = 0
    /\ console_mutex' = th

\* log_message returns at once unless -v was given.
AfterMsg(msgLabel, next) ==
    IF verbose_logging THEN msgLabel ELSE next

(***************************************************************************)
(* processFile: the part shared by src/main.cc and src/verify.sh           *)
(* (from `if (detected)` to `scanned_count++`), and tagFile                *)
(***************************************************************************)

\* Nothing runs once std::terminate was called.
Alive ==
    mainPc # "terminated"

\* A step of a task: the process is alive, and the step leaves the variables
\* of the main thread and of detect() alone.
MainUnchanged ==
    /\ Alive
    /\ UNCHANGED <<dry_run, verbose_logging, hardware_concurrency, max_threads,
                   argn, input_paths, exit_code, report, files, mainPc, it, count, futures>>
    /\ UNCHANGED detVars

\* What detect() can give: true; false with an empty error message; false with
\* the decoder's error message (unsupported format, decode failure).
DetectResults ==
    {"MQA", "NotMQA", "Unsupported", "DecodeErr"}

\* What the metadata library can answer to the non-dry-run body of tagFile:
\* tags appended and written; nothing to add; chain.read() fails; the new
\* comment block cannot be inserted; chain.write() fails; an exception caught
\* by tagFile's own handlers.
TagResults ==
    {"Tagged", "Unchanged", "ReadFail", "BlockFail", "WriteFail", "TagExc"}

\* The test on `detected` taken the wrong way round.
BranchOfInverted(r) ==
    IF r = "NotMQA" THEN "det_lock"
    ELSE IF r = "MQA" THEN "neg_lock"
    ELSE "err_skip"

\* The detected branch taken for every file that decoded without error.
BranchOfTagsAll(r) ==
    IF r \in {"MQA", "NotMQA"} THEN "det_lock"
    ELSE "err_skip"

\* `if (detected) {...} else { if (!err.empty()) log_skip(...) else NOT MQA }`
BranchOf(r) ==
    IF r = "MQA" THEN "det_lock"
    ELSE IF r = "NotMQA" THEN "neg_lock"
    ELSE "err_skip"

\* What processFile makes of detect(): `if (detected)`, else the stored
\* message decides between log_skip and the NOT MQA line.
Classify(detected, err) ==
    IF detected THEN "MQA"
    ELSE IF err = "" THEN "NotMQA"
    ELSE IF err = ReasonUnsupported THEN "Unsupported"
    ELSE "DecodeErr"

\* The reason task t passes to log_skip, by the call site it stands at.
ReasonOf(t) ==
    IF pc[t] \in {"tag_skip", "tag_skip_in"}
    THEN CASE tagRes[t] = "ReadFail"  -> ReasonTagRead
           [] tagRes[t] = "BlockFail" -> ReasonTagBlock
           [] tagRes[t] = "WriteFail" -> ReasonTagWrite
           [] OTHER                   -> ReasonTagExc
    ELSE CASE outcome[t] = "BadHeader"    -> ReasonBadHeader
           [] outcome[t] = "CannotOpen"   -> ReasonCannotOpen
           [] outcome[t] = "TooSmall"     -> ReasonTooSmall
           [] outcome[t] = "CtorThrows"   -> ReasonCtor
           [] outcome[t] = "DetectThrows" -> ReasonDetectThrew
           [] outcome[t] = "Unsupported"  -> ReasonUnsupported
           [] OTHER                       -> ReasonDecode

\* The detected branch: the status line is printed under console_mutex.
DetLock(t) ==
    /\ pc[t] = "det_lock"
    /\ ConsoleLock(t)
    /\ pc' = [pc EXCEPT ![t] = "det_print"]
    /\ MainUnchanged
    /\ UNCHANGED <<outcome, tagRes, status_lines, log_mutex, scanned_count,
                   mqa_count, scan_errors>>

\* ... and the lock is released at the end of the block, before tagFile.
DetPrint(t) ==
    /\ pc[t] = "det_print"
    /\ status_lines' = [status_lines EXCEPT ![t] = Append(@, "MQA")]
    /\ console_mutex' = 0
    /\ pc' = [pc EXCEPT ![t] = "tag_entry"]
    /\ MainUnchanged
    /\ UNCHANGED <<outcome, tagRes, log_mutex, scanned_count, mqa_count, scan_errors>>

\* tagFile without its dry-run test.
DryRunIgnored ==
    FALSE

\* tagFile: if (dry_run) { ...; return; }
DryRunReturns ==
    dry_run

\* tagFile, dry run: takes console_mutex for the "DRY RUN" line.
TagDryLock(t) ==
    /\ pc[t] = "tag_entry"
    /\ DryRunReturns
    /\ ConsoleLock(t)
    /\ pc' = [pc EXCEPT ![t] = "dry_print"]
    /\ MainUnchanged
    /\ UNCHANGED <<outcome, tagRes, status_lines, log_mutex, scanned_count,
                   mqa_count, scan_errors>>

\* The dry-run branch of tagFile leaving processFile past mqa_count++.
DryPrintSkipsCount(t) ==
    /\ pc[t] = "dry_print"
    /\ IF verbose_logging
       THEN /\ pc' = [pc EXCEPT ![t] = "dry_msg"]
            /\ UNCHANGED console_mutex
       ELSE /\ pc' = [pc EXCEPT ![t] = "inc_scanned"]
            /\ console_mutex' = 0
    /\ MainUnchanged
    /\ UNCHANGED <<outcome, tagRes, status_lines, log_mutex, scanned_count,
                   mqa_count, scan_errors>>

\* ... prints, calls log_message while still holding console_mutex, returns.
DryPrint(t) ==
    /\ pc[t] = "dry_print"
    /\ IF verbose_logging
       THEN /\ pc' = [pc EXCEPT ![t] = "dry_msg"]
            /\ UNCHANGED console_mutex
       ELSE /\ pc' = [pc EXCEPT ![t] = "inc_mqa"]
            /\ console_mutex' = 0
    /\ MainUnchanged
    /\ UNCHANGED <<outcome, tagRes, status_lines, log_mutex, scanned_count,
                   mqa_count, scan_errors>>

\* tagFile, not a dry run: the metadata chain is read, edited and written
\* inside try/catch; every failure ends in log_skip, and tagFile returns.
TagRun(t) ==
    /\ pc[t] = "tag_entry"
    /\ ~DryRunReturns
    /\ \E r \in TagResults :
          /\ tagRes' = [tagRes EXCEPT ![t] = r]
          /\ pc' = [pc EXCEPT ![t] =
                      CASE r = "Tagged"    -> AfterMsg("tagged_msg", "inc_mqa")
                        [] r = "Unchanged" -> "inc_mqa"
                        [] OTHER           -> "tag_skip"]
    /\ MainUnchanged
    /\ UNCHANGED <<outcome, console_mutex, status_lines, log_mutex, scanned_count, mqa_count,
                   scan_errors>>

SkipWait ==
    {"tag_skip", "err_skip"}

SkipIn(l) ==
    IF l = "tag_skip" THEN "tag_skip_in" ELSE "err_skip_in"

\* log_skip, first half: std::lock_guard<std::mutex> lock(log_mutex).
LogSkipAcquire(t) ==
    /\ pc[t] \in SkipWait
    /\ LogSkipLock(t)
    /\ pc' = [pc EXCEPT ![t] = SkipIn(pc[t])]
    /\ MainUnchanged
    /\ UNCHANGED <<outcome, tagRes, console_mutex, status_lines, scanned_count, mqa_count,
                   scan_errors>>

\* LogSkipCommit with a tagging failure treated like a failed file: the
\* task skips mqa_count++.
LogSkipCommitDowngrades(t) ==
    /\ pc[t] \in {"tag_skip_in", "err_skip_in"}
    /\ scan_errors' = LedgerAppend(scan_errors, ReasonOf(t), PathOf(t))
    /\ log_mutex' = 0
    /\ pc' = [pc EXCEPT ![t] = "inc_scanned"]
    /\ MainUnchanged
    /\ UNCHANGED <<outcome, tagRes, console_mutex, status_lines, scanned_count, mqa_count>>

\* log_skip, second half: scan_errors[reason].push_back(path), then the guard
\* unlocks. After a tagging failure processFile goes on to mqa_count++; after
\* a failed file it goes to scanned_count++.
LogSkipCommit(t) ==
    /\ pc[t] \in {"tag_skip_in", "err_skip_in"}
    /\ scan_errors' = LedgerAppend(scan_errors, ReasonOf(t), PathOf(t))
    /\ log_mutex' = 0
    /\ pc' = [pc EXCEPT ![t] =
                IF pc[t] = "tag_skip_in" THEN "inc_mqa" ELSE "inc_scanned"]
    /\ MainUnchanged
    /\ UNCHANGED <<outcome, tagRes, console_mutex, status_lines, scanned_count, mqa_count>>

MsgWait ==
    {"dry_msg", "tagged_msg", "mqa_msg", "neg_msg"}

MsgIn(l) ==
    CASE l = "dry_msg"    -> "dry_msg_in"
      [] l = "tagged_msg" -> "tagged_msg_in"
      [] l = "mqa_msg"    -> "mqa_msg_in"
      [] OTHER            -> "neg_msg_in"

\* log_message with -v, first half: the lock_guard on log_mutex.
LogMessageAcquire(t) ==
    /\ pc[t] \in MsgWait
    /\ LogMessageLock(t)
    /\ pc' = [pc EXCEPT ![t] = MsgIn(pc[t])]
    /\ MainUnchanged
    /\ UNCHANGED <<outcome, tagRes, console_mutex, status_lines, scanned_count, mqa_count,
                   scan_errors>>

\* log_message, second half: detailed_log.push_back(msg), unlock, return.
\* Returning from the dry-run branch of tagFile also releases console_mutex.
LogMessageCommit(t) ==
    /\ pc[t] \in {"dry_msg_in", "tagged_msg_in", "mqa_msg_in", "neg_msg_in"}
    /\ log_mutex' = 0
    /\ console_mutex' = IF pc[t] = "dry_msg_in" THEN 0 ELSE console_mutex
    /\ pc' = [pc EXCEPT ![t] =
                IF pc[t] \in {"dry_msg_in", "tagged_msg_in"}
                THEN "inc_mqa" ELSE "inc_scanned"]
    /\ MainUnchanged
    /\ UNCHANGED <<outcome, tagRes, status_lines, scanned_count, mqa_count,
                   scan_errors>>

\* mqa_count++ (atomic), then log_message("[MQA] ...").
IncMqa(t) ==
    /\ pc[t] = "inc_mqa"
    /\ mqa_count' = mqa_count + 1
    /\ pc' = [pc EXCEPT ![t] = AfterMsg("mqa_msg", "inc_scanned")]
    /\ MainUnchanged
    /\ UNCHANGED <<outcome, tagRes, console_mutex, status_lines, log_mutex, scanned_count,
                   scan_errors>>

\* The "NOT MQA" line, printed under console_mutex.
NegLock(t) ==
    /\ pc[t] = "neg_lock"
    /\ ConsoleLock(t)
    /\ pc' = [pc EXCEPT ![t] = "neg_print"]
    /\ MainUnchanged
    /\ UNCHANGED <<outcome, tagRes, status_lines, log_mutex, scanned_count,
                   mqa_count, scan_errors>>

NegPrint(t) ==
    /\ pc[t] = "neg_print"
    /\ status_lines' = [status_lines EXCEPT ![t] = Append(@, "NOT MQA")]
    /\ console_mutex' = 0
    /\ pc' = [pc EXCEPT ![t] = AfterMsg("neg_msg", "inc_scanned")]
    /\ MainUnchanged
    /\ UNCHANGED <<outcome, tagRes, log_mutex, scanned_count, mqa_count, scan_errors>>

\* scanned_count++ (atomic); processFile returns.
IncScanned(t) ==
    /\ pc[t] = "inc_scanned"
    /\ scanned_count' = scanned_count + 1
    /\ pc' = [pc EXCEPT ![t] = "done"]
    /\ MainUnchanged
    /\ UNCHANGED <<outcome, tagRes, console_mutex, status_lines, log_mutex, mqa_count, scan_errors>>

(***************************************************************************)
(* Traversal: main calls recursiveScan for every input path                *)
(***************************************************************************)

\* A step of the main thread outside processFile.
TaskUnchanged ==
    /\ UNCHANGED <<pc, outcome, tagRes, console_mutex, status_lines, scanned_count, mqa_count>>
    /\ UNCHANGED detVars

\* What a path argument may name: nothing, a regular file with extension
\* .flac, or a regular file with another extension (or an object that is
\* neither a regular file nor a directory).
InputKinds ==
    {"missing", "flac", "other"}

\* for (const auto& path : input_paths): every path was handed to
\* recursiveScan.
TraversalOver ==
    argn = Len(input_paths)

\* recursiveScan on the next path argument: a path that does not exist is
\* recorded by log_skip; a regular file with extension .flac is pushed to
\* `files`; any other regular file is skipped silently.
ScanArg ==
    /\ mainPc = "scan"
    /\ argn < Len(input_paths)
    /\ argn' = argn + 1
    /\ LET kind == input_paths[argn + 1]
       IN  /\ files' = IF kind = "flac" THEN Append(files, argn + 1) ELSE files
           /\ mainPc' = IF kind = "missing" THEN "scan_skip" ELSE "scan"
    /\ TaskUnchanged
    /\ UNCHANGED <<dry_run, verbose_logging, hardware_concurrency, max_threads,
                   input_paths, exit_code, report, it, count, futures, log_mutex,
                   scan_errors>>

\* log_skip called by the main thread during traversal: the lock_guard ...
ScanSkipAcquire ==
    /\ mainPc = "scan_skip"
    /\ LogSkipLock(-1)
    /\ mainPc' = "scan_skip_in"
    /\ TaskUnchanged
    /\ UNCHANGED <<dry_run, verbose_logging, hardware_concurrency, max_threads,
                   argn, input_paths, exit_code, report, files, it, count, futures, scan_errors>>

\* ... and the push_back under it.
ScanSkipCommit ==
    /\ mainPc = "scan_skip_in"
    /\ scan_errors' = LedgerAppend(scan_errors, ReasonMissing, argn)
    /\ log_mutex' = 0
    /\ mainPc' = "scan"
    /\ TaskUnchanged
    /\ UNCHANGED <<dry_run, verbose_logging, hardware_concurrency, max_threads,
                   argn, input_paths, exit_code, report, files, it, count, futures>>

(***************************************************************************)
(* The sequential driver and processFile of src/main.cc                    *)
(***************************************************************************)

SharedUnchanged ==
    UNCHANGED <<console_mutex, status_lines, log_mutex, scanned_count, mqa_count, scan_errors>>

\* Header validation: the file cannot be opened, is shorter than 4 bytes, does
\* not start with "fLaC", or is fine. The three failures go to log_skip,
\* scanned_count++ and return.
SeqValidate(t) ==
    /\ pc[t] = "validate"
    /\ \E v \in {"CannotOpen", "TooSmall", "BadHeader", "HeaderOk"} :
          /\ outcome' = [outcome EXCEPT ![t] = v]
          /\ pc' = [pc EXCEPT ![t] = IF v = "HeaderOk" THEN "ctor" ELSE "err_skip"]
    /\ MainUnchanged
    /\ SharedUnchanged
    /\ UNCHANGED tagRes

\* new MQA_identifier(file) inside try/catch: a throw goes to log_skip,
\* scanned_count++ and return.
SeqCtor(t) ==
    /\ pc[t] = "ctor"
    /\ \E made \in BOOLEAN :
          /\ outcome' = [outcome EXCEPT ![t] = IF made THEN "Constructed" ELSE "CtorThrows"]
          /\ pc' = [pc EXCEPT ![t] = IF made THEN "detect" ELSE "err_skip"]
    /\ MainUnchanged
    /\ SharedUnchanged
    /\ UNCHANGED tagRes

\* id_ptr->detect() inside try/catch: a throw goes to log_skip,
\* scanned_count++ and return; otherwise `if (detected)`.
SeqDetect(t) ==
    /\ pc[t] = "detect"
    /\ \E r \in DetectResults \cup {"DetectThrows"} :
          /\ outcome' = [outcome EXCEPT ![t] = r]
          /\ pc' = [pc EXCEPT ![t] = BranchOf(r)]
    /\ MainUnchanged
    /\ SharedUnchanged
    /\ UNCHANGED tagRes

\* main: traversal is over (every argument was scanned), the file loop starts.
SeqBegin ==
    /\ mainPc = "scan"
    /\ TraversalOver
    /\ mainPc' = "seq_loop"
    /\ TaskUnchanged
    /\ UNCHANGED <<dry_run, verbose_logging, hardware_concurrency, max_threads,
                   argn, input_paths, exit_code, report, files, it, count, futures, log_mutex, scan_errors>>

\* for (const auto &file : files) processFile(file, ++count);
SeqCall ==
    /\ mainPc = "seq_loop"
    /\ IF count < Len(files)
       THEN /\ count' = count + 1
            /\ pc' = [pc EXCEPT ![count + 1] = "validate"]
            /\ mainPc' = "seq_call"
       ELSE /\ mainPc' = "summary"
            /\ UNCHANGED <<count, pc>>
    /\ UNCHANGED <<dry_run, verbose_logging, hardware_concurrency, max_threads,
                   argn, input_paths, exit_code, report, files, it, futures, outcome, tagRes>>
    /\ UNCHANGED detVars
    /\ SharedUnchanged

\* processFile returned.
SeqReturn ==
    /\ mainPc = "seq_call"
    /\ pc[count] = "done"
    /\ mainPc' = "seq_loop"
    /\ TaskUnchanged
    /\ UNCHANGED <<dry_run, verbose_logging, hardware_concurrency, max_threads,
                   argn, input_paths, exit_code, report, files, it, count, futures, log_mutex, scan_errors>>

\* An exit code that tells whether the ledger has entries.
ExitCodeCountsFailures(ledgerSize) ==
    IF ledgerSize > 0 THEN 1 ELSE 0

\* return 0; at the end of main, whatever the ledger holds.
ExitCodeOf(ledgerSize) ==
    0

\* No log file was written.
NoReport ==
    [written |-> FALSE, errors |-> [r \in {} |-> <<>>]]

\* A summary that gives, for each reason, the first path only.
ReportOfFirstPaths(ledger) ==
    [r \in {x \in Reasons : ledger[x] # <<>>} |-> <<ledger[r][1]>>]

\* "Summary of Errors": for (const auto& [reason, paths] : scan_errors) the
\* reason and every path recorded under it. The map holds the reasons that
\* log_skip was called with.
ReportOf(ledger) ==
    [r \in {x \in Reasons : ledger[x] # <<>>} |-> ledger[r]]

\* if (verbose_logging) { std::ofstream log(log_file_path);
\* if (log.is_open()) { ... } else "Failed to open log file" }
WriteReport(opened) ==
    IF verbose_logging /\ opened
    THEN [written |-> TRUE, errors |-> ReportOf(scan_errors)]
    ELSE NoReport

\* main prints "Scanned ..." and "Found ...", writes the report if -v was
\* given and the log file can be opened, then returns.
Summary ==
    /\ mainPc = "summary"
    /\ mainPc' = "exit"
    /\ \E opened \in BOOLEAN : report' = WriteReport(opened)
    /\ exit_code' = ExitCodeOf(LedgerSize)
    /\ TaskUnchanged
    /\ UNCHANGED <<dry_run, verbose_logging, hardware_concurrency, max_threads,
                   argn, input_paths, files, it, count, futures, log_mutex, scan_errors>>

(***************************************************************************)
(* The bounded pool and processFile of src/verify.sh                       *)
(***************************************************************************)

\* max_threads = hardware_concurrency(); 0 -> 4; more than 16 -> 16.
MaxThreadsOf(hw) ==
    IF hw = 0 THEN 4
    ELSE IF hw > 16 THEN 16
    ELSE hw

\* A future is ready when its task returned or ended with an exception.
Ready(t) ==
    pc[t] \in {"done", "threw"}

\* `auto id = MQA_identifier(file); bool detected = id.detect();` with no
\* try/catch around them: a throw ends the task and is stored in its future.
PoolStart(t) ==
    /\ pc[t] = "start"
    /\ \E r \in DetectResults \cup {"CtorThrows", "DetectThrows"} :
          /\ outcome' = [outcome EXCEPT ![t] = r]
          /\ pc' = [pc EXCEPT ![t] =
                      IF r \in {"CtorThrows", "DetectThrows"} THEN "threw"
                      ELSE BranchOf(r)]
    /\ MainUnchanged
    /\ SharedUnchanged
    /\ UNCHANGED tagRes

\* main: traversal is over; max_threads is computed; the loop starts.
PoolBegin ==
    /\ mainPc = "scan"
    /\ TraversalOver
    /\ max_threads' = MaxThreadsOf(hardware_concurrency)
    /\ it' = 1
    /\ mainPc' = IF Len(files) > 0 THEN "cleanup" ELSE "join"
    /\ TaskUnchanged
    /\ UNCHANGED <<dry_run, verbose_logging, hardware_concurrency, argn, input_paths, exit_code, report, files,
                   count, futures, log_mutex, scan_errors>>

\* The loop without its step 2: a task is launched whatever the pool holds.
PoolAfterCleanupNoWait(n) ==
    "launch"

\* `if (futures.size() >= max_threads)` after the clean-up pass.
PoolAfterCleanup(n) ==
    IF n >= max_threads THEN "wait_front" ELSE "launch"

\* 1. Clean up finished tasks: one poll of wait_for(0) per step. get() on a
\* future that holds an exception rethrows it in main, which has no handler
\* here: the process is terminated.
PoolCleanup ==
    /\ mainPc = "cleanup"
    /\ IF it > Len(futures)
       THEN /\ mainPc' = PoolAfterCleanup(Len(futures))
            /\ UNCHANGED <<it, futures>>
       ELSE IF Ready(futures[it])
            THEN IF pc[futures[it]] = "threw"
                 THEN /\ mainPc' = "terminated"
                      /\ UNCHANGED <<it, futures>>
                 ELSE /\ futures' = SubSeq(futures, 1, it - 1)
                                    \o SubSeq(futures, it + 1, Len(futures))
                      /\ UNCHANGED <<it, mainPc>>
            ELSE /\ it' = it + 1
                 /\ UNCHANGED <<futures, mainPc>>
    /\ TaskUnchanged
    /\ UNCHANGED <<dry_run, verbose_logging, hardware_concurrency, max_threads,
                   argn, input_paths, exit_code, report, files, count, log_mutex, scan_errors>>

\* 2. If full, wait for the front one: futures.front().wait(); get(); erase.
PoolWaitFront ==
    /\ mainPc = "wait_front"
    /\ Ready(Head(futures))
    /\ IF pc[Head(futures)] = "threw"
       THEN /\ mainPc' = "terminated"
            /\ UNCHANGED futures
       ELSE /\ futures' = Tail(futures)
            /\ mainPc' = "launch"
    /\ TaskUnchanged
    /\ UNCHANGED <<dry_run, verbose_logging, hardware_concurrency, max_threads,
                   argn, input_paths, exit_code, report, files, it, count, log_mutex, scan_errors>>

\* 3. Launch new task: futures.push_back(std::async(..., file, ++count)).
PoolLaunch ==
    /\ mainPc = "launch"
    /\ count' = count + 1
    /\ futures' = Append(futures, count + 1)
    /\ pc' = [pc EXCEPT ![count + 1] = "start"]
    /\ it' = 1
    /\ mainPc' = IF count + 1 < Len(files) THEN "cleanup" ELSE "join"
    /\ UNCHANGED <<dry_run, verbose_logging, hardware_concurrency, max_threads,
                   argn, input_paths, exit_code, report, files, outcome, tagRes>>
    /\ UNCHANGED detVars
    /\ SharedUnchanged

\* main without the final loop over `futures`: the summary follows at once.
JoinNoWait ==
    /\ mainPc = "join"
    /\ mainPc' = "summary"
    /\ TaskUnchanged
    /\ UNCHANGED <<dry_run, verbose_logging, hardware_concurrency, max_threads,
                   argn, input_paths, exit_code, report, files, it, count, futures, log_mutex, scan_errors>>

\* Wait for remaining: for (auto &f : futures) { f.wait(); f.get(); }
Join ==
    /\ mainPc = "join"
    /\ IF it > Len(futures)
       THEN /\ mainPc' = "summary"
            /\ UNCHANGED it
       ELSE /\ Ready(futures[it])
            /\ IF pc[futures[it]] = "threw"
               THEN /\ mainPc' = "terminated"
                    /\ UNCHANGED it
               ELSE /\ it' = it + 1
                    /\ UNCHANGED mainPc
    /\ TaskUnchanged
    /\ UNCHANGED <<dry_run, verbose_logging, hardware_concurrency, max_threads,
                   argn, input_paths, exit_code, report, files, count, futures, log_mutex, scan_errors>>

(***************************************************************************)
(* The unbounded async driver and processFile of src/unnamed/part_001      *)
(***************************************************************************)

\* `auto id = MQA_identifier(file); bool detected = id.detect();`
AsyncStart(t) ==
    /\ pc[t] = "a_start"
    /\ \E r \in DetectResults \cup {"CtorThrows", "DetectThrows"} :
          /\ outcome' = [outcome EXCEPT ![t] = r]
          /\ pc' = [pc EXCEPT ![t] =
                      CASE r \in {"CtorThrows", "DetectThrows"} -> "threw"
                        [] r = "MQA"    -> "a_det_lock"
                        [] r = "NotMQA" -> "a_neg_lock"
                        [] OTHER        -> "a_err_skip"]
    /\ MainUnchanged
    /\ SharedUnchanged
    /\ UNCHANGED tagRes

\* if (detected) { std::lock_guard<std::mutex> lock(console_mutex); ...
AsyncDetLock(t) ==
    /\ pc[t] = "a_det_lock"
    /\ ConsoleLock(t)
    /\ pc' = [pc EXCEPT ![t] = "a_tag"]
    /\ MainUnchanged
    /\ UNCHANGED <<outcome, tagRes, status_lines, log_mutex, scanned_count,
                   mqa_count, scan_errors>>

\* ... tagFile(file, rate) is called with console_mutex held. Not a dry run:
\* the metadata is edited; a failure goes to log_skip.
AsyncTagRun(t) ==
    /\ pc[t] = "a_tag"
    /\ ~dry_run
    /\ \E r \in TagResults :
          /\ tagRes' = [tagRes EXCEPT ![t] = r]
          /\ pc' = [pc EXCEPT ![t] =
                      IF r \in {"Tagged", "Unchanged"} THEN "a_print" ELSE "a_tag_skip"]
    /\ MainUnchanged
    /\ UNCHANGED <<outcome, console_mutex, status_lines, log_mutex, scanned_count, mqa_count,
                   scan_errors>>

\* Dry run: tagFile reaches its own lock_guard on console_mutex.
AsyncTagDry(t) ==
    /\ pc[t] = "a_tag"
    /\ dry_run
    /\ pc' = [pc EXCEPT ![t] = "a_dry_lock"]
    /\ MainUnchanged
    /\ UNCHANGED <<outcome, tagRes, console_mutex, status_lines, log_mutex, scanned_count,
                   mqa_count, scan_errors>>

\* Locking a std::mutex the calling thread already owns is undefined: the
\* thread blocks for ever (then no step of it is enabled), or lock() throws
\* std::system_error, which leaves tagFile and processFile, unlocking
\* console_mutex on the way out, and is stored in the future.
AsyncRelockThrows(t) ==
    /\ pc[t] = "a_dry_lock"
    /\ console_mutex = t
    /\ console_mutex' = 0
    /\ pc' = [pc EXCEPT ![t] = "threw"]
    /\ MainUnchanged
    /\ UNCHANGED <<outcome, tagRes, status_lines, log_mutex, scanned_count,
                   mqa_count, scan_errors>>

\* log_skip of part_001 (the same lock_guard and push_back), from tagFile
\* (console_mutex is held by the caller) or from the error branch.
AsyncSkipAcquire(t) ==
    /\ pc[t] \in {"a_tag_skip", "a_err_skip"}
    /\ LogSkipLock(t)
    /\ pc' = [pc EXCEPT ![t] =
                IF pc[t] = "a_tag_skip" THEN "a_tag_skip_in" ELSE "a_err_skip_in"]
    /\ MainUnchanged
    /\ UNCHANGED <<outcome, tagRes, console_mutex, status_lines, scanned_count, mqa_count,
                   scan_errors>>

AsyncSkipCommit(t) ==
    /\ pc[t] \in {"a_tag_skip_in", "a_err_skip_in"}
    /\ scan_errors' =
          LedgerAppend(scan_errors,
                       IF pc[t] = "a_tag_skip_in"
                       THEN (CASE tagRes[t] = "ReadFail"  -> ReasonTagRead
                               [] tagRes[t] = "BlockFail" -> ReasonTagBlock
                               [] tagRes[t] = "WriteFail" -> ReasonTagWrite
                               [] OTHER                   -> ReasonTagExc)
                       ELSE (IF outcome[t] = "Unsupported"
                             THEN ReasonUnsupported ELSE ReasonDecode),
                       PathOf(t))
    /\ log_mutex' = 0
    /\ pc' = [pc EXCEPT ![t] =
                IF pc[t] = "a_tag_skip_in" THEN "a_print" ELSE "inc_scanned"]
    /\ MainUnchanged
    /\ UNCHANGED <<outcome, tagRes, console_mutex, status_lines, scanned_count, mqa_count>>

\* ... std::cout << filename; mqa_count++; } : the lock_guard goes out of scope.
AsyncPrint(t) ==
    /\ pc[t] = "a_print"
    /\ mqa_count' = mqa_count + 1
    /\ status_lines' = [status_lines EXCEPT ![t] = Append(@, "MQA")]
    /\ console_mutex' = 0
    /\ pc' = [pc EXCEPT ![t] = "inc_scanned"]
    /\ MainUnchanged
    /\ UNCHANGED <<outcome, tagRes, log_mutex, scanned_count, scan_errors>>

\* The "NOT MQA" line of part_001 (no log_message there).
AsyncNegLock(t) ==
    /\ pc[t] = "a_neg_lock"
    /\ ConsoleLock(t)
    /\ pc' = [pc EXCEPT ![t] = "a_neg_print"]
    /\ MainUnchanged
    /\ UNCHANGED <<outcome, tagRes, status_lines, log_mutex, scanned_count,
                   mqa_count, scan_errors>>

AsyncNegPrint(t) ==
    /\ pc[t] = "a_neg_print"
    /\ status_lines' = [status_lines EXCEPT ![t] = Append(@, "NOT MQA")]
    /\ console_mutex' = 0
    /\ pc' = [pc EXCEPT ![t] = "inc_scanned"]
    /\ MainUnchanged
    /\ UNCHANGED <<outcome, tagRes, log_mutex, scanned_count, mqa_count, scan_errors>>

\* main: traversal is over; "Launch parallel tasks".
AsyncBegin ==
    /\ mainPc = "scan"
    /\ TraversalOver
    /\ it' = 1
    /\ mainPc' = IF Len(files) > 0 THEN "launch_all" ELSE "join"
    /\ TaskUnchanged
    /\ UNCHANGED <<dry_run, verbose_logging, hardware_concurrency, max_threads,
                   argn, input_paths, exit_code, report, files, count, futures, log_mutex, scan_errors>>

\* for (file : files) futures.push_back(std::async(std::launch::async, ...));
AsyncLaunch ==
    /\ mainPc = "launch_all"
    /\ count' = count + 1
    /\ futures' = Append(futures, count + 1)
    /\ pc' = [pc EXCEPT ![count + 1] = "a_start"]
    /\ mainPc' = IF count + 1 < Len(files) THEN "launch_all" ELSE "join"
    /\ UNCHANGED <<dry_run, verbose_logging, hardware_concurrency, max_threads,
                   argn, input_paths, exit_code, report, files, it, outcome, tagRes>>
    /\ UNCHANGED detVars
    /\ SharedUnchanged

(***************************************************************************)
(* MQA_identifier::detect and OriginalSampleRateDecoder                    *)
(* (src/unnamed/part_000)                                                  *)
(***************************************************************************)

\* The MQA magic word 0xbe0498c88. A 36-bit value is kept as the pair
\* <<upper 18 bits, lower 18 bits>>.
MagicHi ==
    194578

MagicLo ==
    101512

Magic ==
    <<MagicHi, MagicLo>>

RECURSIVE Pow2(_)
Pow2(n) ==
    IF n = 0 THEN 1 ELSE 2 * Pow2(n - 1)

\* Bit n (0 = least significant) of the magic word.
MagicBit(n) ==
    IF n >= 18 THEN (MagicHi \div Pow2(n - 18)) % 2 ELSE (MagicLo \div Pow2(n)) % 2

\* Bit n of static_cast<uint32_t>(x) for a FLAC__int32 x (two's complement).
U32Bit(x, n) ==
    (x \div Pow2(n)) % 2

\* ((static_cast<uint32_t>(s[0]) ^ static_cast<uint32_t>(s[1])) >> sh) & 1u
PlaneBit(s, sh) ==
    (U32Bit(s[1], sh) + U32Bit(s[2], sh)) % 2

\* reg |= bit, for a one-bit value.
OrBit(reg, bit) ==
    <<reg[1], IF reg[2] % 2 = 1 THEN reg[2] ELSE reg[2] + bit>>

\* reg = (reg << 1u) & 0xFFFFFFFFFu
ShiftReg(reg) ==
    <<(2 * reg[1] + (reg[2] \div 131072)) % 262144, (2 * reg[2]) % 262144>>

\* const auto pos = (this->decoder.bps - 16u)
Pos ==
    bps - 16

\* OriginalSampleRateDecoder without `if (multiplier > 16) multiplier *= 2`.
OriginalSampleRateDecoderNoDoubling(c) ==
    IF c > 15 THEN -1
    ELSE LET base == IF c % 2 = 1 THEN 48000 ELSE 44100
             e    == ((c \div 8) % 2) + 2 * ((c \div 4) % 2) + 4 * ((c \div 2) % 2)
         IN  base * Pow2(e)

\* OriginalSampleRateDecoder without the test of line 28.
OriginalSampleRateDecoderUnchecked(c) ==
    LET base == IF c % 2 = 1 THEN 48000 ELSE 44100
        e    == ((c \div 8) % 2) + 2 * ((c \div 4) % 2) + 4 * ((c \div 2) % 2)
        m    == Pow2(e)
        mult == IF m > 16 THEN m * 2 ELSE m
    IN  base * mult

\* OriginalSampleRateDecoder(c): -1 stands for the std::logic_error thrown
\* when c > 0b1111; the largest product, 48000 * 256, fits a uint32_t.
OriginalSampleRateDecoder(c) ==
    IF c > 15 THEN -1
    ELSE LET base == IF c % 2 = 1 THEN 48000 ELSE 44100
             e    == ((c \div 8) % 2) + 2 * ((c \div 4) % 2) + 4 * ((c \div 2) % 2)
             m    == Pow2(e)
             mult == IF m > 16 THEN m * 2 ELSE m
         IN  base * mult

\* The sample `*(&s + m)` when it lies inside the vector (i is 0-based).
InBounds(i) ==
    i < Len(samples)

\* The shifted sample masked with 3u instead of 1u: two planes at once.
PayloadBitTwoPlanes(i, k, g, q) ==
    IF InBounds(i)
    THEN PlaneBit(samples[i + 1], Pos + k) + 2 * PlaneBit(samples[i + 1], Pos + k + 1)
    ELSE (g \div Pow2(q)) % 2

\* The bit the payload loops read from sample i on the matched plane: the
\* sample's own bit inside the vector; outside it the read is undefined and
\* gives whatever lies there (bit q of g).
PayloadBit(i, k, g, q) ==
    IF InBounds(i) THEN PlaneBit(samples[i + 1], Pos + k)
    ELSE (g \div Pow2(q)) % 2

\* The rate code with the first sample read as the lowest bit.
OrsfLsbFirst(i, k, g) ==
    PayloadBit(i + 3, k, g, 0) + 2 * PayloadBit(i + 4, k, g, 1)
    + 4 * PayloadBit(i + 5, k, g, 2) + 8 * PayloadBit(i + 6, k, g, 3)

\* for (m = 3; m < 7; m++) orsf |= j << (6u - m);
Orsf(i, k, g) ==
    8 * PayloadBit(i + 3, k, g, 0) + 4 * PayloadBit(i + 4, k, g, 1)
    + 2 * PayloadBit(i + 5, k, g, 2) + PayloadBit(i + 6, k, g, 3)

\* for (m = 29; m < 34; m++) provenance |= j << (33u - m);
Provenance(i, k, g) ==
    16 * PayloadBit(i + 29, k, g, 4) + 8 * PayloadBit(i + 30, k, g, 5)
    + 4 * PayloadBit(i + 31, k, g, 6) + 2 * PayloadBit(i + 32, k, g, 7)
    + PayloadBit(i + 33, k, g, 8)

\* The three registers after `buffer |= ...` for the sample at idx.
Reg0 ==
    OrBit(buffer, PlaneBit(samples[idx + 1], Pos))

Reg1 ==
    OrBit(buffer1, PlaneBit(samples[idx + 1], Pos + 1))

Reg2 ==
    OrBit(buffer2, PlaneBit(samples[idx + 1], Pos + 2))

\* The three tests made in the order buffer2, buffer1, buffer.
MatchBranchHighestFirst ==
    IF Reg2 = Magic THEN 2
    ELSE IF Reg1 = Magic THEN 1
    ELSE IF Reg0 = Magic THEN 0
    ELSE -1

\* The branch taken by `if (buffer == magic) else if (buffer1 == magic) else
\* if (buffer2 == magic)`: 0, 1, 2, or -1 for the final else.
MatchBranch ==
    IF Reg0 = Magic THEN 0
    ELSE IF Reg1 = Magic THEN 1
    ELSE IF Reg2 = Magic THEN 2
    ELSE -1

DetOrchUnchanged ==
    UNCHANGED <<orchVars, rateVars, tagVars, scanVars>>

\* The scanner part of detect() has not started.
ScanUntouched ==
    UNCHANGED <<idx, buffer, buffer1, buffer2, isMQA_, isMQAStudio_,
                original_sample_rate, moff, midx, orsf, provenance>>

\* The messages decode() and its callbacks store, without their details.
MsgInitFailed ==
    "Initializing decoder failed"

MsgFlacError ==
    "FLAC Error"

\* The test of the number of channels alone.
UnsupportedChannels ==
    channels # 2

\* write_callback's test of the stream format.
Unsupported ==
    channels # 2 \/ (bps # 16 /\ bps # 24)

\* The condition of the while loop of decode().
LoopCond ==
    /\ decoded_samples < sample_rate * 3
    /\ dec_error = ""
    /\ dec_state # "END_OF_STREAM"

\* The number of samples of the next frame: the frame size of the stream,
\* or what is left of the audio for the last frame.
NextBlock ==
    IF Len(flac.audio) - decoded_samples < flac.blocksize
    THEN Len(flac.audio) - decoded_samples
    ELSE flac.blocksize

\* decode() up to its loop: init() either fails, which stores a message and
\* clears ok, or succeeds, and process_until_end_of_metadata() hands
\* STREAMINFO to metadata_callback.
DecInit ==
    /\ dpc = "init"
    /\ \E init_ok \in BOOLEAN :
          IF init_ok
          THEN /\ sample_rate' = flac.sample_rate
               /\ channels' = flac.channels
               /\ bps' = flac.bps
               /\ dec_state' = "streaming"
               /\ UNCHANGED <<dec_error, ok>>
          ELSE /\ dec_error' = MsgInitFailed
               /\ ok' = FALSE
               /\ UNCHANGED <<sample_rate, channels, bps, dec_state>>
    /\ dpc' = "loop"
    /\ UNCHANGED <<flac, decoded_samples, samples, retval, error_message_>>
    /\ ScanUntouched
    /\ DetOrchUnchanged

\* process_single() decodes one frame and calls write_callback, possibly
\* after error_callback reported a loss of synchronization in front of it.
\* An unsupported format stores a message and aborts the decoder; otherwise
\* the block is appended and counted.
DecFrame ==
    /\ dpc = "loop"
    /\ LoopCond
    /\ dec_state = "streaming"
    /\ decoded_samples < Len(flac.audio)
    /\ \E lost \in BOOLEAN :
          IF Unsupported
          THEN /\ dec_error' = ReasonUnsupported
               /\ ok' = FALSE
               /\ dec_state' = "ABORTED"
               /\ UNCHANGED <<decoded_samples, samples>>
          ELSE /\ dec_error' = IF lost THEN MsgFlacError ELSE dec_error
               /\ decoded_samples' = decoded_samples + NextBlock
               /\ samples' = samples \o SubSeq(flac.audio, decoded_samples + 1,
                                               decoded_samples + NextBlock)
               /\ ok' = TRUE
               /\ UNCHANGED dec_state
    /\ UNCHANGED <<flac, sample_rate, channels, bps, dpc, retval, error_message_>>
    /\ ScanUntouched
    /\ DetOrchUnchanged

\* process_single() calls error_callback and delivers no frame.
DecError ==
    /\ dpc = "loop"
    /\ LoopCond
    /\ dec_state = "streaming"
    /\ dec_error' = dec_error \o MsgFlacError
    /\ ok' \in BOOLEAN
    /\ UNCHANGED <<flac, sample_rate, channels, bps, decoded_samples, samples,
                   dec_state, dpc, retval, error_message_>>
    /\ ScanUntouched
    /\ DetOrchUnchanged

\* process_single() finds the end of the audio.
DecEnd ==
    /\ dpc = "loop"
    /\ LoopCond
    /\ dec_state = "streaming"
    /\ decoded_samples >= Len(flac.audio)
    /\ dec_state' = "END_OF_STREAM"
    /\ ok' = TRUE
    /\ UNCHANGED <<flac, sample_rate, channels, bps, decoded_samples, samples,
                   dec_error, dpc, retval, error_message_>>
    /\ ScanUntouched
    /\ DetOrchUnchanged

\* process_single() returns false without calling a callback (a read or
\* allocation failure): the stream ended inside a frame, or the decoder is
\* left in a fatal state.
DecFail ==
    /\ dpc = "loop"
    /\ LoopCond
    /\ dec_state = "streaming"
    /\ ok' = FALSE
    /\ dec_state' \in {"END_OF_STREAM", "ABORTED"}
    /\ UNCHANGED <<flac, sample_rate, channels, bps, decoded_samples, samples,
                   dec_error, dpc, retval, error_message_>>
    /\ ScanUntouched
    /\ DetOrchUnchanged

\* process_single() on a decoder in a fatal state: no callback, no progress,
\* and a result that depends on the state.
DecStuck ==
    /\ dpc = "loop"
    /\ LoopCond
    /\ dec_state = "ABORTED"
    /\ ok' \in BOOLEAN
    /\ UNCHANGED <<flac, sample_rate, channels, bps, decoded_samples, samples,
                   dec_error, dec_state, dpc, retval, error_message_>>
    /\ ScanUntouched
    /\ DetOrchUnchanged

\* The loop is left: a cleared ok with no message stores one.
DecodeReturn ==
    /\ dpc = "loop"
    /\ ~LoopCond
    /\ dec_error' = IF ~ok /\ dec_error = "" THEN ReasonDecode ELSE dec_error
    /\ dpc' = "decoded"
    /\ UNCHANGED <<flac, sample_rate, channels, bps, decoded_samples, samples,
                   ok, dec_state, retval, error_message_>>
    /\ ScanUntouched
    /\ DetOrchUnchanged

\* detect() after decode(): a decoder message is copied and false returned,
\* otherwise the scan over decoder.samples starts.
DetBegin ==
    /\ dpc = "decoded"
    /\ IF dec_error # ""
       THEN /\ error_message_' = dec_error
            /\ retval' = FALSE
            /\ dpc' = "returned"
       ELSE /\ dpc' = "scan"
            /\ UNCHANGED <<error_message_, retval>>
    /\ UNCHANGED <<bps, samples>>
    /\ UNCHANGED decVars
    /\ ScanUntouched
    /\ DetOrchUnchanged

\* One iteration of the loop without a match: the registers are shifted.
DetNoMatch ==
    /\ dpc = "scan"
    /\ idx < Len(samples)
    /\ MatchBranch = -1
    /\ buffer' = ShiftReg(Reg0)
    /\ buffer1' = ShiftReg(Reg1)
    /\ buffer2' = ShiftReg(Reg2)
    /\ idx' = idx + 1
    /\ UNCHANGED <<bps, samples, dpc, retval, isMQA_, isMQAStudio_,
                   original_sample_rate, error_message_, moff, midx, orsf, provenance>>
    /\ DetOrchUnchanged
    /\ UNCHANGED decVars

\* isMQAStudio_ with `provenance >= 8` in place of `provenance > 8`.
IsStudioFromEight(prov) ==
    prov >= 8

\* this->isMQAStudio_ = provenance > 8
IsStudio(prov) ==
    prov > 8

\* What the matching branch does once the payload bits were read.
DetFinish(k, g) ==
    /\ buffer' = Reg0
    /\ buffer1' = Reg1
    /\ buffer2' = Reg2
    /\ isMQA_' = TRUE
    /\ moff' = k
    /\ midx' = idx
    /\ dpc' = "returned"
    /\ orsf' = Orsf(idx, k, g)
    /\ IF OriginalSampleRateDecoder(Orsf(idx, k, g)) = -1
       THEN /\ error_message_' = "Exception: Invalid bytecode"
            /\ retval' = FALSE
            /\ UNCHANGED <<original_sample_rate, isMQAStudio_, provenance>>
       ELSE /\ original_sample_rate' = OriginalSampleRateDecoder(Orsf(idx, k, g))
            /\ provenance' = Provenance(idx, k, g)
            /\ isMQAStudio_' = IsStudio(Provenance(idx, k, g))
            /\ retval' = TRUE
            /\ UNCHANGED error_message_
    /\ UNCHANGED <<bps, samples, idx>>
    /\ DetOrchUnchanged
    /\ UNCHANGED decVars

\* A match with every payload sample (up to idx + 33) inside the vector.
DetMatch ==
    /\ dpc = "scan"
    /\ idx < Len(samples)
    /\ MatchBranch # -1
    /\ InBounds(idx + 33)
    /\ DetFinish(MatchBranch, 0)

\* A match with fewer than 33 samples after it: `*(&s + m)` reads past the
\* end of the vector, which is undefined. Either the reads give some bits ...
DetMatchOutOfBounds ==
    /\ dpc = "scan"
    /\ idx < Len(samples)
    /\ MatchBranch # -1
    /\ ~InBounds(idx + 33)
    /\ \E g \in 0..511 : DetFinish(MatchBranch, g)

\* ... or the read faults: the process is killed, or (with the structured
\* exception translator of src/main.cc) the fault is thrown as a
\* std::runtime_error inside detect()'s try block, whose handler stores the
\* message and returns false.
DetMatchFault ==
    /\ dpc = "scan"
    /\ idx < Len(samples)
    /\ MatchBranch # -1
    /\ ~InBounds(idx + 33)
    /\ buffer' = Reg0
    /\ buffer1' = Reg1
    /\ buffer2' = Reg2
    /\ isMQA_' = TRUE
    /\ moff' = MatchBranch
    /\ midx' = idx
    /\ UNCHANGED <<orsf, provenance>>
    /\ \E killed \in BOOLEAN :
          IF killed
          THEN /\ dpc' = "crashed"
               /\ UNCHANGED error_message_
          ELSE /\ dpc' = "returned"
               /\ error_message_' =
                     "Exception: Access Violation - attempted to read/write protected memory"
    /\ retval' = FALSE
    /\ UNCHANGED <<bps, samples, idx, isMQAStudio_, original_sample_rate>>
    /\ DetOrchUnchanged
    /\ UNCHANGED decVars

\* DetEnd with the final `return false` turned into `return true`.
DetEndReturnsTrue ==
    /\ dpc = "scan"
    /\ idx = Len(samples)
    /\ dpc' = "returned"
    /\ retval' = TRUE
    /\ UNCHANGED <<bps, samples, idx, buffer, buffer1, buffer2, isMQA_,
                   isMQAStudio_, original_sample_rate, error_message_, moff, midx, orsf, provenance>>
    /\ DetOrchUnchanged
    /\ UNCHANGED decVars

\* The loop ran over every sample without a match: return false.
DetEnd ==
    /\ dpc = "scan"
    /\ idx = Len(samples)
    /\ dpc' = "returned"
    /\ retval' = FALSE
    /\ UNCHANGED <<bps, samples, idx, buffer, buffer1, buffer2, isMQA_,
                   isMQAStudio_, original_sample_rate, error_message_, moff, midx, orsf, provenance>>
    /\ DetOrchUnchanged
    /\ UNCHANGED decVars

(***************************************************************************)
(* Specifications                                                          *)
(***************************************************************************)

\* The values of hardware_concurrency() a run is started with.
HwValues ==
    {1, 2}

\* A freshly constructed MyDecoder and the scanner before its loop.
Fresh ==
    /\ bps = 0
    /\ samples = <<>>
    /\ sample_rate = 0
    /\ channels = 0
    /\ decoded_samples = 0
    /\ dec_error = ""
    /\ ok = TRUE
    /\ dec_state = "UNINITIALIZED"
    /\ idx = 0
    /\ buffer = <<0, 0>>
    /\ buffer1 = <<0, 0>>
    /\ buffer2 = <<0, 0>>
    /\ retval = FALSE
    /\ isMQA_ = FALSE
    /\ isMQAStudio_ = FALSE
    /\ original_sample_rate = 0
    /\ error_message_ = ""
    /\ moff = -1
    /\ midx = -1
    /\ orsf = 0
    /\ provenance = 0

\* main() before it starts, whatever --dry-run is.
MainIdle ==
    /\ verbose_logging = FALSE
    /\ hardware_concurrency = 1
    /\ max_threads = 0
    /\ argn = 0
    /\ input_paths = <<>>
    /\ exit_code = -1
    /\ report = NoReport
    /\ files = <<>>
    /\ mainPc = "scan"
    /\ it = 1
    /\ count = 0
    /\ futures = <<>>
    /\ pc = [t \in Tasks |-> "idle"]
    /\ outcome = [t \in Tasks |-> "none"]
    /\ tagRes = [t \in Tasks |-> "none"]
    /\ console_mutex = 0
    /\ status_lines = [t \in Tasks |-> <<>>]
    /\ log_mutex = 0
    /\ scanned_count = 0
    /\ mqa_count = 0
    /\ scan_errors = [r \in Reasons |-> <<>>]

\* The drivers before main() starts, for the specifications that look
\* into detect() only.
DriversIdle ==
    /\ dry_run = FALSE
    /\ MainIdle

\* A file of the given format, frame size and audio.
Flac(sr, ch, b, bs, audio) ==
    [sample_rate |-> sr, channels |-> ch, bps |-> b, blocksize |-> bs,
     audio |-> audio]

\* detect() is not looked into while the drivers are studied.
DetIdle ==
    /\ Fresh
    /\ flac = Flac(0, 0, 0, 0, <<>>)
    /\ dpc = "idle"

\* No call of OriginalSampleRateDecoder is looked at on its own.
RateIdle ==
    /\ code = 0
    /\ rate = 0
    /\ rpc = "idle"

\* No file is looked at for its tags.
TagIdle ==
    /\ has_vc = FALSE
    /\ comments = <<>>
    /\ original_rate = 0
    /\ writes = 0
    /\ tcalls = 0

\* No directory tree is traversed.
ScanIdle ==
    /\ tree = [kind |-> <<>>, perm |-> <<>>]
    /\ scan_roots = <<>>
    /\ scan_stack = <<>>
    /\ prev_files = <<>>
    /\ scan_run = 0

Init ==
    /\ DetIdle
    /\ RateIdle
    /\ TagIdle
    /\ ScanIdle
    /\ dry_run \in BOOLEAN
    /\ verbose_logging \in BOOLEAN
    /\ hardware_concurrency \in HwValues
    /\ max_threads = 0
    /\ argn = 0
    /\ input_paths \in UNION {[1..n -> InputKinds] : n \in 0..MaxFiles}
    /\ exit_code = -1
    /\ report = NoReport
    /\ files = <<>>
    /\ mainPc = "scan"
    /\ it = 1
    /\ count = 0
    /\ futures = <<>>
    /\ pc = [t \in Tasks |-> "idle"]
    /\ outcome = [t \in Tasks |-> "none"]
    /\ tagRes = [t \in Tasks |-> "none"]
    /\ console_mutex = 0
    /\ status_lines = [t \in Tasks |-> <<>>]
    /\ log_mutex = 0
    /\ scanned_count = 0
    /\ mqa_count = 0
    /\ scan_errors = [r \in Reasons |-> <<>>]

\* Steps of a task that are the same in main.cc and verify.sh.
TaskTail(t) ==
    \/ DetLock(t)
    \/ DetPrint(t)
    \/ TagDryLock(t)
    \/ DryPrint(t)
    \/ TagRun(t)
    \/ LogSkipAcquire(t)
    \/ LogSkipCommit(t)
    \/ LogMessageAcquire(t)
    \/ LogMessageCommit(t)
    \/ IncMqa(t)
    \/ NegLock(t)
    \/ NegPrint(t)
    \/ IncScanned(t)

Traversal ==
    \/ ScanArg
    \/ ScanSkipAcquire
    \/ ScanSkipCommit

NextSeq ==
    \/ Traversal
    \/ SeqBegin
    \/ SeqCall
    \/ SeqReturn
    \/ Summary
    \/ \E t \in Tasks : SeqValidate(t) \/ SeqCtor(t) \/ SeqDetect(t) \/ TaskTail(t)

NextPool ==
    \/ Traversal
    \/ PoolBegin
    \/ PoolCleanup
    \/ PoolWaitFront
    \/ PoolLaunch
    \/ Join
    \/ Summary
    \/ \E t \in Tasks : PoolStart(t) \/ TaskTail(t)

NextAsync ==
    \/ Traversal
    \/ AsyncBegin
    \/ AsyncLaunch
    \/ Join
    \/ Summary
    \/ \E t \in Tasks :
          \/ AsyncStart(t)
          \/ AsyncDetLock(t)
          \/ AsyncTagRun(t)
          \/ AsyncTagDry(t)
          \/ AsyncRelockThrows(t)
          \/ AsyncSkipAcquire(t)
          \/ AsyncSkipCommit(t)
          \/ AsyncPrint(t)
          \/ AsyncNegLock(t)
          \/ AsyncNegPrint(t)
          \/ IncScanned(t)

\* The sequential driver of src/main.cc.
SpecSeq ==
    Init /\ [][NextSeq]_vars

\* The bounded pool of src/verify.sh.
SpecPool ==
    Init /\ [][NextPool]_vars

\* The unbounded async driver of src/unnamed/part_001.
SpecAsync ==
    Init /\ [][NextAsync]_vars


(***************************************************************************)
(* OriginalSampleRateDecoder called on its own                             *)
(***************************************************************************)

\* Bound: the largest argument the function is called with.
MaxCode ==
    127

\* The call returns the rate, or throws std::logic_error("Invalid bytecode")
\* and returns nothing.
RateCall ==
    /\ rpc = "call"
    /\ IF OriginalSampleRateDecoder(code) = -1
       THEN /\ rpc' = "threw"
            /\ UNCHANGED rate
       ELSE /\ rpc' = "returned"
            /\ rate' = OriginalSampleRateDecoder(code)
    /\ UNCHANGED <<code, orchVars>>
    /\ UNCHANGED <<bps, samples, idx, buffer, buffer1, buffer2, dpc, retval,
                   isMQA_, isMQAStudio_, original_sample_rate, error_message_,
                   moff, midx, orsf, provenance, decVars, tagVars, scanVars>>

InitRate ==
    /\ code \in 0..MaxCode
    /\ rate = 0
    /\ rpc = "call"
    /\ DetIdle
    /\ DriversIdle
    /\ TagIdle
    /\ ScanIdle

NextRate ==
    RateCall

SpecRate ==
    InitRate /\ [][NextRate]_vars

(***************************************************************************)
(* tagFile called on one file                                              *)
(***************************************************************************)

\* Bound: the number of times tagFile is called on the file.
MaxCalls ==
    2

\* The value tagFile gives the MQAENCODER comment.
EncoderValue ==
    "MQAEncode v1.1, 2.3.3+800 (a505918), F8EC1703-7616-45E5-B81E-D60821434062, Dec 01 2017 22:19:30"

\* vcBlock->find_entry_from(0, name) != -1
HasEntry(cs, name) ==
    \E i \in 1..Len(cs) : cs[i][1] = name

\* The two comments appended whatever the block holds.
TagAppendUnchecked(cs, r) ==
    Append(Append(cs, <<"MQAENCODER", EncoderValue>>),
           <<"ORIGINALSAMPLERATE", ToString(r)>>)

\* The two comments set to the detected values: an entry of the name that
\* is there is overwritten, a missing one appended.
TagAppendReplacing(cs, r) ==
    LET set(l, name, val) ==
            IF HasEntry(l, name)
            THEN [i \in 1..Len(l) |-> IF l[i][1] = name THEN <<name, val>> ELSE l[i]]
            ELSE Append(l, <<name, val>>)
        withEnc == set(cs, "MQAENCODER", EncoderValue)
    IN  IF r > 0 THEN set(withEnc, "ORIGINALSAMPLERATE", ToString(r)) ELSE withEnc

\* The comments of the block after the two check-and-append steps.
TagAppend(cs, r) ==
    LET withEnc == IF HasEntry(cs, "MQAENCODER") THEN cs
                   ELSE Append(cs, <<"MQAENCODER", EncoderValue>>)
    IN  IF r > 0 /\ ~HasEntry(withEnc, "ORIGINALSAMPLERATE")
        THEN Append(withEnc, <<"ORIGINALSAMPLERATE", ToString(r)>>)
        ELSE withEnc

\* The local `modified`: some comment was appended.
Modified(cs, r) ==
    TagAppend(cs, r) # cs

\* chain.write() whatever `modified` is.
ShouldWriteAlways(modified) ==
    TRUE

\* if (modified) chain.write()
ShouldWrite(modified) ==
    modified

\* tagFile left the file and the ledger alone.
TagNothing ==
    UNCHANGED <<has_vc, comments, writes, scan_errors>>

\* tagFile recorded a failure and left the file alone.
TagSkip(reason) ==
    /\ scan_errors' = LedgerAppend(scan_errors, reason, 1)
    /\ UNCHANGED <<has_vc, comments, writes>>

\* One call of tagFile(file, original_rate), with what the metadata
\* library answers: in dry-run mode it prints and returns; otherwise it
\* reads the chain, finds or creates the comment block, appends the missing
\* comments and writes the chain if one was appended; each failure goes to
\* log_skip.
TagFileCall ==
    /\ tcalls < MaxCalls
    /\ tcalls' = tcalls + 1
    /\ IF DryRunReturns
       THEN /\ tagRes' = [tagRes EXCEPT ![1] = "DryRun"]
            /\ TagNothing
       ELSE \E lib \in TagResults :
               /\ tagRes' = [tagRes EXCEPT ![1] = lib]
               /\ CASE lib = "ReadFail" -> TagSkip(ReasonTagRead)
                    [] lib = "BlockFail" -> ~has_vc /\ TagSkip(ReasonTagBlock)
                    [] lib = "TagExc" -> TagSkip(ReasonTagExc)
                    [] lib = "WriteFail" ->
                          /\ ShouldWrite(Modified(comments, original_rate))
                          /\ TagSkip(ReasonTagWrite)
                    [] lib = "Tagged" ->
                          /\ ShouldWrite(Modified(comments, original_rate))
                          /\ comments' = TagAppend(comments, original_rate)
                          /\ has_vc' = TRUE
                          /\ writes' = writes + 1
                          /\ UNCHANGED scan_errors
                    [] OTHER ->
                          /\ ~ShouldWrite(Modified(comments, original_rate))
                          /\ TagNothing
    /\ UNCHANGED <<dry_run, verbose_logging, hardware_concurrency, max_threads,
                   argn, input_paths, exit_code, report, files, mainPc, it, count, futures, pc, outcome,
                   console_mutex, status_lines, log_mutex, scanned_count, mqa_count>>
    /\ UNCHANGED original_rate
    /\ UNCHANGED <<bps, samples, idx, buffer, buffer1, buffer2, dpc, retval,
                   isMQA_, isMQAStudio_, original_sample_rate, error_message_,
                   moff, midx, orsf, provenance, decVars, rateVars, scanVars>>

\* Comment lists a file may carry before the first call.
OtherEncoder ==
    <<"MQAENCODER", "other">>

InitialComments ==
    {<<>>,
     <<<<"TITLE", "t">>>>,
     <<<<"MQAENCODER", EncoderValue>>>>,
     <<OtherEncoder>>,
     <<<<"ORIGINALSAMPLERATE", "44100">>>>,
     <<<<"MQAENCODER", EncoderValue>>, <<"ORIGINALSAMPLERATE", "44100">>>>,
     <<<<"TITLE", "t">>, OtherEncoder, <<"ORIGINALSAMPLERATE", "96000">>>>,
     <<OtherEncoder, <<"MQAENCODER", EncoderValue>>>>,
     <<<<"ORIGINALSAMPLERATE", "44100">>, <<"ORIGINALSAMPLERATE", "96000">>>>}

\* The rates tagFile is called with: 0 when detect() gave none.
TagRates ==
    {0, 44100, 96000}

InitTag ==
    /\ dry_run \in BOOLEAN
    /\ MainIdle
    /\ comments \in InitialComments
    /\ has_vc \in IF comments = <<>> THEN BOOLEAN ELSE {TRUE}
    /\ original_rate \in TagRates
    /\ writes = 0
    /\ tcalls = 0
    /\ DetIdle
    /\ RateIdle
    /\ ScanIdle

NextTag ==
    TagFileCall

SpecTag ==
    InitTag /\ [][NextTag]_vars

(***************************************************************************)
(* recursiveScan over a directory tree                                     *)
(***************************************************************************)

\* Bound: the number of times the program is run on the same tree.
MaxRuns ==
    2

\* The tree: directory 1 holds 2, 3 and 4, directory 3 holds 5.
Nodes ==
    1..5

Kids ==
    [n \in Nodes |-> IF n = 1 THEN {2, 3, 4} ELSE IF n = 3 THEN {5} ELSE {}]

\* A path argument that names nothing.
Missing ==
    0

\* What the nodes are: 1 and 3 directories, the others regular files with
\* the extension .flac or with another one.
KindChoices ==
    {k \in [Nodes -> {"dir", "flac", "other"}] :
        \A n \in Nodes : (k[n] = "dir") <=> (n \in {1, 3})}

\* What the caller may do with a node: "noread" (no permission to read it),
\* "nostat" (asking for its status fails with a filesystem_error), "ok".
PermChoices ==
    {q \in [Nodes -> {"ok", "noread", "nostat"}] :
        /\ \A n \in {1, 2, 4} : q[n] = "ok"
        /\ q[5] # "noread"}

Trees ==
    {[kind |-> k, perm |-> q] : k \in KindChoices, q \in PermChoices}

\* The path arguments of a run.
RootLists ==
    {<<1>>, <<Missing, 1>>, <<1, 3>>, <<3, 2>>, <<2, 1>>, <<1, 1>>}

\* is_regular_file(p) whatever the extension is.
IsRegular(n) ==
    tree.kind[n] # "dir"

\* is_regular_file(p) && p.extension() == ".flac"
IsFlac(n) ==
    tree.kind[n] = "flac"

\* What recursiveScan leaves untouched.
ScanFrame ==
    /\ UNCHANGED <<dry_run, verbose_logging, hardware_concurrency, max_threads,
                   input_paths, exit_code, report, mainPc, it, count, futures,
                   pc, outcome, tagRes, console_mutex, status_lines, log_mutex,
                   scanned_count, mqa_count>>
    /\ UNCHANGED <<bps, samples, idx, buffer, buffer1, buffer2, dpc, retval,
                   isMQA_, isMQAStudio_, original_sample_rate, error_message_,
                   moff, midx, orsf, provenance, decVars, rateVars, tagVars>>
    /\ UNCHANGED <<tree, scan_roots, prev_files, scan_run>>

\* recursiveScan(p, files), the calls below those in `below`: a path that
\* does not exist is recorded; a status that cannot be had throws, which the
\* outer catch records; a regular file is pushed if its extension is .flac;
\* a directory is iterated with skip_permission_denied, which makes the
\* iterator of a directory that cannot be read an empty one.
RecursiveScan(p, below) ==
    IF p = Missing
    THEN /\ scan_errors' = LedgerAppend(scan_errors, ReasonMissing, p)
         /\ scan_stack' = below
         /\ UNCHANGED files
    ELSE IF tree.perm[p] = "nostat"
    THEN /\ scan_errors' = LedgerAppend(scan_errors, ReasonAccess, p)
         /\ scan_stack' = below
         /\ UNCHANGED files
    ELSE IF tree.kind[p] # "dir"
    THEN /\ files' = IF IsFlac(p) THEN Append(files, p) ELSE files
         /\ scan_stack' = below
         /\ UNCHANGED scan_errors
    ELSE /\ scan_stack' = IF tree.perm[p] = "noread" THEN below
                          ELSE Append(below, [curDir |-> p, todo |-> Kids[p]])
         /\ UNCHANGED <<files, scan_errors>>

\* main: recursiveScan(fs::path(path), files) for the next path argument.
ScanPath ==
    /\ scan_run > 0
    /\ scan_stack = <<>>
    /\ argn < Len(scan_roots)
    /\ argn' = argn + 1
    /\ RecursiveScan(scan_roots[argn + 1], <<>>)
    /\ ScanFrame

\* One round of the loop over directory_iterator(curDir): the iterator
\* yields an entry not yet seen, in an order of its own. A status that
\* cannot be had throws in the tests of the entry, recorded by the inner
\* catch, or in the call made for it, recorded by the outer catch of that
\* call; a regular .flac file is pushed; a directory is scanned by a
\* recursive call; any other entry is passed over.
ScanEntry ==
    /\ scan_stack # <<>>
    /\ LET top == scan_stack[Len(scan_stack)]
       IN  \E entry \in top.todo :
              LET rest == [scan_stack EXCEPT ![Len(scan_stack)].todo = @ \ {entry}]
              IN  IF tree.perm[entry] = "nostat"
                  THEN /\ \E reason \in {ReasonFsEntry, ReasonAccess} :
                             scan_errors' = LedgerAppend(scan_errors, reason, entry)
                       /\ scan_stack' = rest
                       /\ UNCHANGED files
                  ELSE RecursiveScan(entry, rest)
    /\ UNCHANGED argn
    /\ ScanFrame

\* The iterator of curDir is at its end: recursiveScan returns.
ScanReturn ==
    /\ scan_stack # <<>>
    /\ scan_stack[Len(scan_stack)].todo = {}
    /\ scan_stack' = SubSeq(scan_stack, 1, Len(scan_stack) - 1)
    /\ UNCHANGED <<argn, files, scan_errors>>
    /\ ScanFrame

\* Every path argument was traversed.
ScanDone ==
    /\ scan_run > 0
    /\ scan_stack = <<>>
    /\ argn = Len(scan_roots)

\* The program is run again with the same arguments on the same tree.
ScanAgain ==
    /\ ScanDone
    /\ scan_run < MaxRuns
    /\ scan_run' = scan_run + 1
    /\ prev_files' = files
    /\ files' = <<>>
    /\ scan_errors' = [r \in Reasons |-> <<>>]
    /\ argn' = 0
    /\ UNCHANGED <<dry_run, verbose_logging, hardware_concurrency, max_threads,
                   input_paths, exit_code, report, mainPc, it, count, futures,
                   pc, outcome, tagRes, console_mutex, status_lines, log_mutex,
                   scanned_count, mqa_count>>
    /\ UNCHANGED <<bps, samples, idx, buffer, buffer1, buffer2, dpc, retval,
                   isMQA_, isMQAStudio_, original_sample_rate, error_message_,
                   moff, midx, orsf, provenance, decVars, rateVars, tagVars>>
    /\ UNCHANGED <<tree, scan_roots, scan_stack>>

InitScan ==
    /\ DriversIdle
    /\ DetIdle
    /\ RateIdle
    /\ TagIdle
    /\ tree \in Trees
    /\ scan_roots \in RootLists
    /\ scan_stack = <<>>
    /\ prev_files = <<>>
    /\ scan_run = 1

NextScan ==
    \/ ScanPath
    \/ ScanEntry
    \/ ScanReturn
    \/ ScanAgain

SpecScan ==
    InitScan /\ [][NextScan]_vars

(***************************************************************************)
(* detect() over a family of decoded streams                               *)
(***************************************************************************)

\* Largest number of samples in front of an injected synchronization word.
MaxLead ==
    1

\* Numbers of samples appended after the latest possible match index:
\* none, one short of the payload, exactly the payload.
Tails ==
    {0, 32, 33}

\* <<rate code, provenance>> pairs written after an injected word where
\* the place of the word is varied ...
Payloads ==
    {<<1, 8>>, <<10, 9>>}

\* ... and where the payload is: every rate code, every provenance value.
PayloadSweep ==
    {<<c, 9>> : c \in 0..15} \cup {<<5, v>> : v \in 0..31}

\* Bit j (0-based) of a plane that carries the word from sample `start`
\* (-1: no word), the payload after it, and `fill` elsewhere.
InputBit(start, j, fill, pl) ==
    IF start = -1 \/ j < start THEN fill
    ELSE IF j - start <= 35 THEN MagicBit(35 - (j - start))
    ELSE LET o == j - start - 35
         IN  IF o \in 3..6 THEN (pl[1] \div Pow2(6 - o)) % 2
             ELSE IF o \in 29..33 THEN (pl[2] \div Pow2(33 - o)) % 2
             ELSE fill

\* The value (left XOR right) of sample j.
InputXor(b, starts, j, fill, pl) ==
    Pow2(b - 16) * (InputBit(starts[1], j, fill, pl)
                    + 2 * InputBit(starts[2], j, fill, pl)
                    + 4 * InputBit(starts[3], j, fill, pl))

\* A stereo sample with that XOR: right channel silent, or both channels
\* negative with one more differing bit above the three planes.
InputSample(b, starts, j, fill, pl, neg) ==
    IF neg
    THEN <<-1 - (InputXor(b, starts, j, fill, pl) + Pow2(b - 13)), -1>>
    ELSE <<InputXor(b, starts, j, fill, pl), 0>>

InputStream(b, starts, tail, fill, pl, neg) ==
    [j \in 1..(MaxLead + 36 + tail) |->
        InputSample(b, starts, j - 1, fill, pl, neg)]

\* The word on plane k only, from the first sample on.
OnPlane(k) ==
    [p \in 1..3 |-> IF p = k + 1 THEN 0 ELSE -1]

\* <<sample rate, frame size>> of the files: one frame holding the whole
\* audio, and frames against which the three-second limit is reached.
Framings ==
    {<<12, 12>>, <<12, 16>>}

\* <<channels, bits per sample>> that write_callback refuses.
UnsupportedFormats ==
    {<<1, 16>>, <<1, 24>>, <<2, 8>>, <<2, 32>>, <<6, 24>>}

\* Stereo 16- and 24-bit files with the word at every place of every plane.
PlacedFiles ==
    {Flac(44100, 2, b, 4096, InputStream(b, starts, tail, fill, pl, neg)) :
        b \in {16, 24}, tail \in Tails, fill \in {0, 1}, pl \in Payloads,
        neg \in BOOLEAN, starts \in [1..3 -> -1..MaxLead]}

\* Files with the word on one plane and each payload after it.
PayloadFiles ==
    {Flac(44100, 2, 24, 4096,
          InputStream(24, OnPlane(k), 33, fill, pl, FALSE)) :
        k \in 0..2, fill \in {0, 1}, pl \in PayloadSweep}

\* Files whose audio ends before a word can be complete: no sample, one
\* sample, one sample short of the word.
ShortFiles ==
    {Flac(44100, 2, b, 4096,
          SubSeq(InputStream(b, OnPlane(0), 0, 0, <<0, 0>>, FALSE), 1, n)) :
        b \in {16, 24}, n \in {0, 1, 35}}

\* Files cut into several frames.
FramedFiles ==
    {Flac(f[1], 2, 16, f[2], InputStream(16, OnPlane(k), 33, 0, <<1, 8>>, FALSE)) :
        f \in Framings, k \in {-1, 0}}

\* The payload each plane carries when several planes carry the word at the
\* same samples.
PlanePayloads ==
    <<<<1, 8>>, <<10, 9>>, <<4, 20>>>>

\* A stream whose planes of the set `planes` all carry the word in the
\* samples 0..35, each followed by its own payload.
SharedStream(b, planes) ==
    [j \in 1..(36 + 33) |->
        <<Pow2(b - 16)
            * ((IF 0 \in planes THEN InputBit(0, j - 1, 0, PlanePayloads[1]) ELSE 0)
               + 2 * (IF 1 \in planes THEN InputBit(0, j - 1, 0, PlanePayloads[2]) ELSE 0)
               + 4 * (IF 2 \in planes THEN InputBit(0, j - 1, 0, PlanePayloads[3]) ELSE 0)),
          0>>]

\* Files in which two or three registers match at the same sample.
SharedFiles ==
    {Flac(44100, 2, b, 4096, SharedStream(b, planes)) :
        b \in {16, 24}, planes \in {{0, 1}, {0, 2}, {1, 2}, {0, 1, 2}}}

\* Files of a format write_callback refuses: with audio carrying the word
\* on the plane a 16-bit scan would read, and without any audio frame.
UnsupportedFiles ==
    {Flac(44100, u[1], u[2], 4096, audio) :
        u \in UnsupportedFormats,
        audio \in {<<>>, InputStream(16, OnPlane(0), 33, 0, <<1, 8>>, FALSE)}}

Files ==
    PlacedFiles \cup PayloadFiles \cup ShortFiles \cup FramedFiles
        \cup UnsupportedFiles \cup SharedFiles

\* detect() is called on a fresh identifier of some file; the drivers stay
\* idle.
InitDetect ==
    /\ flac \in Files
    /\ Fresh
    /\ dpc = "init"
    /\ DriversIdle
    /\ RateIdle
    /\ TagIdle
    /\ ScanIdle

NextDetect ==
    \/ DecInit
    \/ DecFrame
    \/ DecError
    \/ DecEnd
    \/ DecFail
    \/ DecStuck
    \/ DecodeReturn
    \/ DetBegin
    \/ DetNoMatch
    \/ DetMatch
    \/ DetMatchOutOfBounds
    \/ DetMatchFault
    \/ DetEnd

SpecDetect ==
    InitDetect /\ [][NextDetect]_vars

\* detect() runs on its caller's thread and is not suspended for ever: a
\* step that can be taken is taken.
SpecDetectLive ==
    SpecDetect /\ WF_vars(NextDetect)


(***************************************************************************)
(* Properties of the drivers                                               *)
(***************************************************************************)

\* The discovered files, as task ids.
Discovered ==
    1..Len(files)

\* How many discovered files ended validation / detection with a result in S.
NumWith(S) ==
    Cardinality({t \in Discovered : outcome[t] \in S})

\* The results of a file that fails header validation.
HeaderFailures ==
    {"BadHeader", "CannotOpen", "TooSmall"}

\* How often path p is recorded under reason r.
Entries(r, p) ==
    Cardinality({i \in 1..Len(scan_errors[r]) : scan_errors[r][i] = p})

\* The run of C1: every file is watermark-positive, valid and negative, or
\* fails header validation; tagging succeeded; every path argument existed.
BatchOfThreeKinds ==
    /\ \A t \in Discovered :
          /\ outcome[t] \in {"MQA", "NotMQA"} \cup HeaderFailures
          /\ tagRes[t] \in {"none", "Tagged", "Unchanged"}
    /\ scan_errors[ReasonMissing] = <<>>

\* C1 (batch isolation): when a sequential run over P watermark-positive, N
\* valid negative and F non-audio files, with tagging succeeding, has reached
\* its summary, scanned = P+N+F, matched = P, and the ledger holds exactly F
\* entries: one per non-audio file, under the header-validation reason of that
\* file.
C1_BatchIsolation ==
    (mainPc \in {"summary", "exit"} /\ BatchOfThreeKinds) =>
        /\ scanned_count = Len(files)
        /\ mqa_count = NumWith({"MQA"})
        /\ LedgerSize = NumWith(HeaderFailures)
        /\ \A t \in Discovered :
              outcome[t] \in HeaderFailures =>
                 \E r \in {ReasonBadHeader, ReasonCannotOpen, ReasonTooSmall} :
                    /\ Entries(r, PathOf(t)) = 1
                    /\ (outcome[t] = "BadHeader") = (r = ReasonBadHeader)
                    /\ (outcome[t] = "CannotOpen") = (r = ReasonCannotOpen)

\* The case of the specification: P = N = F = 1, the run is over.
C1_Witness ==
    /\ mainPc = "exit"
    /\ BatchOfThreeKinds
    /\ NumWith({"MQA"}) = 1
    /\ NumWith({"NotMQA"}) = 1
    /\ NumWith({"BadHeader"}) = 1
    /\ scanned_count = 3
    /\ mqa_count = 1
    /\ LedgerSize = 1

\* C2 (fault isolation), for the bounded pool: no task ends with an exception
\* left in its future, and no exception reaches the main thread.
C2_FaultIsolation ==
    /\ \A t \in Tasks : pc[t] # "threw"
    /\ mainPc # "terminated"

\* C3 (scanned exactly once): every task that has ended has incremented
\* scanned_count once, and no other task has: scanned_count is the number of
\* ended tasks.
C3_ScannedOncePerTask ==
    scanned_count = Cardinality({t \in Tasks : Ready(t)})

\* The positions of processFile after `mqa_count++`.
AfterIncMqa ==
    {"mqa_msg", "mqa_msg_in", "inc_scanned", "done"}

\* C4 (matched exactly once per detection): under every interleaving
\* mqa_count is the number of tasks whose detect() returned true and that are
\* past `mqa_count++`; a task whose detect() returned false never adds to it;
\* when the summary is reached it is the number of detected files.
C4_MatchedOncePerDetected ==
    /\ mqa_count = Cardinality({t \in Tasks :
                                   outcome[t] = "MQA" /\ pc[t] \in AfterIncMqa})
    /\ mainPc \in {"summary", "exit"} => mqa_count = NumWith({"MQA"})

\* Two detected files and one that is not, at the summary of a pool run.
C4_Witness ==
    /\ mainPc = "summary"
    /\ mqa_count = 2
    /\ NumWith({"MQA"}) = 2
    /\ NumWith({"NotMQA", "Unsupported", "DecodeErr"}) = 1

\* Futures the main thread has already joined in its final loop.
Joined ==
    IF mainPc = "join" THEN it - 1
    ELSE IF mainPc \in {"summary", "exit"} THEN Len(futures)
    ELSE 0

\* Tasks launched and not yet joined or erased.
InFlight ==
    Len(futures) - Joined

\* C5 (bounded parallelism): the cap is in 1..16 for every hardware value
\* (4 for 0, 16 above 16), and the tasks launched and not yet joined never
\* outnumber the cap.
C5_BoundedParallelism ==
    /\ \A hw \in 0..MaxHw :
          /\ MaxThreadsOf(hw) \in 1..16
          /\ (hw = 0 => MaxThreadsOf(hw) = 4)
          /\ (hw > 16 => MaxThreadsOf(hw) = 16)
    /\ InFlight <= MaxThreadsOf(hardware_concurrency)


\* The tasks launched so far that have not ended.
Unfinished ==
    {t \in 1..count : ~Ready(t)}

\* A step of the main thread that admits a task.
Admits ==
    count' = count + 1

\* Right after the last admission the pool held max_threads unfinished tasks;
\* since then the task admitted last has ended, and the least recently
\* admitted one is still running.
FullAndOldestRunning ==
    /\ count >= 1
    /\ Ready(count)
    /\ futures # <<>>
    /\ ~Ready(Head(futures))
    /\ Cardinality(Unfinished) = max_threads - 1

\* `s` without its i-th element.
Without(s, i) ==
    SubSeq(s, 1, i - 1) \o SubSeq(s, i + 1, Len(s))

\* C6 as stated (strict FIFO backpressure): a task is admitted only below the
\* cap, it is the next file in discovery order, and once the pool was full no
\* task is admitted before the least recently admitted one has completed.
C6_StrictFifoBackpressure ==
    [][Admits => /\ Len(futures) < max_threads
                 /\ futures' = Append(futures, count + 1)
                 /\ ~FullAndOldestRunning]_vars

\* C6, amended: a task is admitted only while the pool holds fewer than
\* max_threads futures, and it is the next file in discovery order; a future
\* leaves the pool only when its task has ended; the main thread waits only
\* for a pool of max_threads futures, and then for the least recently
\* admitted one, which it removes. Any ended task may be removed first, so a
\* task can be admitted while an older one still runs.
C6_Backpressure ==
    [][/\ Len(futures) <= max_threads
       /\ Admits => /\ Len(futures) < max_threads
                    /\ count < Len(files)
                    /\ futures' = Append(futures, count + 1)
                    /\ pc'[count + 1] = "start"
       /\ (futures' # futures /\ ~Admits) =>
             \E i \in 1..Len(futures) :
                /\ Ready(futures[i])
                /\ futures' = Without(futures, i)
                /\ (mainPc = "wait_front" => i = 1)
       /\ mainPc = "wait_front" =>
             /\ Len(futures) = max_threads
             /\ (mainPc' # "wait_front" => Ready(Head(futures)))
      ]_vars

\* The pool is full, files remain, and the main thread is blocked on the
\* least recently admitted task, which still runs.
C6_Witness ==
    /\ mainPc = "wait_front"
    /\ Len(futures) = max_threads
    /\ ~Ready(Head(futures))
    /\ count < Len(files)

\* C7 (run-end barrier): when the summary starts every discovered file was
\* admitted and its task has ended and been joined, and from then on neither
\* counter nor the ledger changes.
C7_RunEndBarrier ==
    /\ [](mainPc \in {"summary", "exit"} =>
             /\ count = Len(files)
             /\ \A t \in Discovered : pc[t] = "done")
    /\ [][(mainPc \in {"summary", "exit"}) =>
             (UNCHANGED <<scanned_count, mqa_count, scan_errors>>)]_vars

\* The summary of a pool run over at least two files.
C7_Witness ==
    /\ mainPc = "summary"
    /\ Len(files) >= 2
    /\ scanned_count = Len(files)

\* The positions at which a task waits for console_mutex.
ConsoleWait ==
    {"det_lock", "tag_entry", "neg_lock", "a_det_lock", "a_dry_lock", "a_neg_lock"}

\* C8 (no deadlock on the locks): no task stands at a lock_guard on
\* console_mutex while it owns console_mutex, and no task waits for
\* console_mutex while it owns log_mutex (the order is console, then log).
C8_NoSelfRelock ==
    \A t \in Tasks :
       /\ ~(pc[t] = "a_dry_lock" /\ console_mutex = t)
       /\ ~(pc[t] \in ConsoleWait /\ log_mutex = t)

\* The threads that are between the lock_guard of log_skip and the end of
\* its push_back.
InsideLedger ==
    {t \in Tasks : pc[t] \in {"tag_skip_in", "err_skip_in"}}
    \cup (IF mainPc = "scan_skip_in" THEN {-1} ELSE {})

\* C9 (ledger under log_mutex): a thread inside a ledger mutation owns
\* log_mutex, so at most one thread is inside one, and the ledger changes
\* only by a step of the owner of log_mutex.
C9_LedgerUnderLock ==
    /\ \A th \in InsideLedger : log_mutex = th
    /\ Cardinality(InsideLedger) <= 1

\* One task is inside log_skip while another one waits at its lock_guard.
C9_Witness ==
    \E t1, t2 \in Tasks :
       /\ t1 # t2
       /\ pc[t1] \in {"tag_skip_in", "err_skip_in"}
       /\ pc[t2] \in SkipWait

(***************************************************************************)
(* Properties of detect()                                                  *)
(***************************************************************************)

\* The last 36 bits of plane k up to sample i (0-based), most significant
\* first, are the magic word.
WindowAt(i, k) ==
    /\ i >= 35
    /\ \A n \in 0..35 : PlaneBit(samples[i + 1 - n], Pos + k) = MagicBit(n)

\* The sample indexes at which some plane carries the word.
MatchIndexes ==
    {i \in 0..(Len(samples) - 1) : \E k \in 0..2 : WindowAt(i, k)}

\* The first of them.
FirstMatch ==
    CHOOSE i \in MatchIndexes : \A j \in MatchIndexes : i <= j

\* C10 (first-match attribution): when detect() is over and the decoder
\* stored no message, a stream that
\* carries the word on one of the three planes is reported as watermarked,
\* the match is attributed to the first sample index at which a plane
\* carries it and to a plane that carries it there, and the scan stopped at
\* that sample; a stream without the word is not reported.
C10_FirstMatchReported ==
    dpc \in {"returned", "crashed"} /\ dec_error = "" =>
        IF MatchIndexes # {}
        THEN /\ dpc = "returned"
             /\ retval = TRUE
             /\ midx = FirstMatch
             /\ idx = FirstMatch
             /\ moff \in 0..2
             /\ WindowAt(midx, moff)
        ELSE /\ retval = FALSE
             /\ midx = -1
             /\ idx = Len(samples)

\* C11 (no word, no error): when detect() is over, the decoder stored no
\* message and none of the three planes of the delivered samples carries
\* the word at any index (an empty sequence and sequences shorter than 36
\* samples included), detect() returned false with an empty error message,
\* and processFile takes the NOT MQA branch, which records nothing.
C11_NoWordNoError ==
    dpc = "returned" /\ dec_error = "" /\ MatchIndexes = {} =>
        /\ retval = FALSE
        /\ error_message_ = ""
        /\ ~isMQA_
        /\ BranchOf(Classify(retval, error_message_)) = "neg_lock"

\* detect() is over on 35 samples, one short of a complete word.
C11_Witness ==
    /\ dpc = "returned"
    /\ dec_error = ""
    /\ Len(samples) = 35
    /\ idx = 35
    /\ MatchIndexes = {}
    /\ retval = FALSE

\* C12 (unsupported format): when detect() is over on a file whose format
\* has channels # 2 or bits per sample outside {16, 24}, and the decoder
\* reported no failure of its own, detect() returned false and the stored
\* message is the Unsupported Audio Format one, whatever the audio is, a
\* file without any audio frame included.
C12_UnsupportedFormatError ==
    /\ dpc = "returned"
    /\ flac.channels # 2 \/ flac.bps \notin {16, 24}
    /\ dec_error \in {"", ReasonUnsupported}
    => /\ retval = FALSE
       /\ error_message_ = ReasonUnsupported

\* C13 (decoder failure): once the decoder reported a failure while
\* decode() runs (init failed, error_callback stored a message, or the last
\* process_single() returned false), detect() eventually returns false with
\* a non-empty error message, whatever the samples decoded so far carry.
C13_DecoderFailureSurfaced ==
    (dpc = "loop" /\ (dec_error # "" \/ ~ok))
        ~> (dpc = "returned" /\ retval = FALSE /\ error_message_ # "")

\* C14 (truncated payload): when the word was matched at a sample index
\* with fewer than 33 samples after it, detect() returned (no read past the
\* end of the samples made it fault), it returned true with the watermark
\* flag set, and the original sample rate is 0.
C14_TruncatedPayload ==
    /\ dpc \in {"returned", "crashed"}
    /\ midx # -1
    /\ ~InBounds(midx + 33)
    => /\ dpc = "returned"
       /\ retval = TRUE
       /\ isMQA_
       /\ original_sample_rate = 0

\* The rate the table gives for a code in 0..15: base 44100 or 48000 by
\* bit 0, exponent e from bits 3, 2, 1 (bit 3 lowest), multiplier 2^e,
\* doubled when above 16.
TableRate(c) ==
    LET base == IF c \in {1, 3, 5, 7, 9, 11, 13, 15} THEN 48000 ELSE 44100
        e    == (IF c \in 8..15 THEN 1 ELSE 0)
                + (IF c \in {4, 5, 6, 7, 12, 13, 14, 15} THEN 2 ELSE 0)
                + (IF c \in {2, 3, 6, 7, 10, 11, 14, 15} THEN 4 ELSE 0)
        m    == CASE e = 0 -> 1 [] e = 1 -> 2 [] e = 2 -> 4 [] e = 3 -> 8
                  [] e = 4 -> 16 [] e = 5 -> 64 [] e = 6 -> 128 [] e = 7 -> 256
    IN  base * m

\* C15 (rate table): a call of OriginalSampleRateDecoder with a code c in
\* 0..15 returns, and returns base * m of the table; code 0 gives 44100,
\* code 1 gives 48000, code 15 gives 12288000, and the result fits 32 bits.
C15_RateTable ==
    /\ OriginalSampleRateDecoder(0) = 44100
    /\ OriginalSampleRateDecoder(1) = 48000
    /\ OriginalSampleRateDecoder(15) = 12288000
    /\ rpc \in {"returned", "threw"} /\ code \in 0..15 =>
          /\ rpc = "returned"
          /\ rate = TableRate(code)
          /\ rate > 0
          /\ rate \div 65536 < 65536

\* The call with code 15 has returned 12288000.
C15_Witness ==
    /\ rpc = "returned"
    /\ code = 15
    /\ rate = 12288000

\* C16 (invalid bytecode): a call of OriginalSampleRateDecoder with a code
\* above 15 ends by the Invalid bytecode exception and returns no rate.
C16_InvalidBytecode ==
    rpc \in {"returned", "threw"} /\ code > 15 =>
        /\ rpc = "threw"
        /\ rate = 0

\* The call with code 16 has thrown.
C16_Witness ==
    /\ rpc = "threw"
    /\ code = 16
    /\ rate = 0

\* The 5-bit value the stream carries on the matched plane in the samples
\* 29..33 after the match, first sample most significant.
ProvValue ==
    16 * PlaneBit(samples[midx + 30], Pos + moff)
    + 8 * PlaneBit(samples[midx + 31], Pos + moff)
    + 4 * PlaneBit(samples[midx + 32], Pos + moff)
    + 2 * PlaneBit(samples[midx + 33], Pos + moff)
    + PlaneBit(samples[midx + 34], Pos + moff)

\* C17 (studio flag): when detect() returned after a match with its payload
\* inside the samples, on whichever of the three planes, the studio flag is
\* true exactly if the 5-bit provenance value of the stream is above 8.
C17_StudioFlag ==
    dpc = "returned" /\ midx # -1 /\ InBounds(midx + 33) =>
        /\ retval = TRUE
        /\ moff \in 0..2
        /\ ProvValue \in 0..31
        /\ isMQAStudio_ <=> (ProvValue > 8)

\* A match on the third plane with provenance 9: studio.
C17_Witness ==
    /\ dpc = "returned"
    /\ midx # -1
    /\ InBounds(midx + 33)
    /\ moff = 2
    /\ ProvValue = 9
    /\ isMQAStudio_

\* The file carries the tags tagFile would add for its rate.
HasTargets ==
    /\ HasEntry(comments, "MQAENCODER")
    /\ original_rate = 0 \/ HasEntry(comments, "ORIGINALSAMPLERATE")

\* C18 (tag-writer idempotence): after a call of tagFile that ended without
\* a failure the file carries the target tags, and a call made on a file
\* that carries them writes nothing: block, comments and number of writes
\* are as before the call.
C18_Idempotent ==
    /\ [](tagRes[1] \in {"Tagged", "Unchanged"} => HasTargets)
    /\ [][(tcalls' = tcalls + 1 /\ HasTargets) =>
             (UNCHANGED <<has_vc, comments, writes>>)]_vars

\* Two calls were made, the first one wrote both tags, the second nothing.
C18_Witness ==
    /\ ~dry_run
    /\ tcalls = 2
    /\ writes = 1
    /\ tagRes[1] = "Unchanged"
    /\ scan_errors = [r \in Reasons |-> <<>>]
    /\ comments = <<<<"MQAENCODER", EncoderValue>>, <<"ORIGINALSAMPLERATE", "44100">>>>

\* C19 (dry run): in every state of a run started with --dry-run, whatever
\* the tasks found and however they interleave, no task has had the
\* metadata of its file read or written, and no tagging failure is in the
\* ledger.
C19_DryRunNoModification ==
    dry_run =>
        /\ \A t \in Tasks : tagRes[t] = "none"
        /\ \A r \in {ReasonTagRead, ReasonTagBlock, ReasonTagWrite, ReasonTagExc} :
              scan_errors[r] = <<>>

\* A dry run is over; two files were found watermarked, one was not.
C19_Witness ==
    /\ dry_run
    /\ mainPc = "summary"
    /\ mqa_count = 2
    /\ NumWith({"MQA"}) = 2
    /\ NumWith({"NotMQA"}) = 1
    /\ \A t \in Tasks : pc[t] = "done"

\* The positions of a task inside tagFile or in the log_skip / log_message
\* calls tagFile makes.
InTagFile ==
    {"tag_entry", "dry_print", "dry_msg", "dry_msg_in", "tagged_msg",
     "tagged_msg_in", "tag_skip", "tag_skip_in"}

\* The results with which a task is Detected, NotDetected or Failed.
TerminalOutcomes ==
    {"MQA", "NotMQA", "Unsupported", "DecodeErr", "DetectThrows", "CtorThrows",
     "CannotOpen", "TooSmall", "BadHeader"}

\* How far a position is along processFile.
Rank(l) ==
    CASE l = "idle" -> 0
      [] l = "validate" -> 1
      [] l = "ctor" -> 2
      [] l = "detect" -> 3
      [] l \in {"det_lock", "neg_lock", "err_skip"} -> 4
      [] l \in {"det_print", "neg_print", "err_skip_in"} -> 5
      [] l \in {"tag_entry", "neg_msg"} -> 6
      [] l \in {"dry_print", "neg_msg_in"} -> 7
      [] l \in {"dry_msg", "tagged_msg", "tag_skip"} -> 8
      [] l \in {"dry_msg_in", "tagged_msg_in", "tag_skip_in"} -> 9
      [] l = "inc_mqa" -> 10
      [] l = "mqa_msg" -> 11
      [] l = "mqa_msg_in" -> 12
      [] l = "inc_scanned" -> 13
      [] l = "done" -> 14

\* C20 (per-file state machine): a task is inside tagFile, or has an answer
\* of the metadata library, only if detect() returned true for it; tagFile
\* is entered from the detected branch only and, as every step of a task
\* moves it forward along processFile, at most once; the result of a task
\* never changes once it is Detected, NotDetected or Failed, and a task that
\* is done stays done.
C20_PerFileStateMachine ==
    /\ [](\A t \in Tasks :
            pc[t] \in InTagFile \/ tagRes[t] # "none" => outcome[t] = "MQA")
    /\ [][\A t \in Tasks :
            /\ (pc'[t] # pc[t]) => (Rank(pc'[t]) > Rank(pc[t]))
            /\ (pc'[t] = "tag_entry" /\ pc[t] # "tag_entry") =>
                  (pc[t] = "det_print" /\ tagRes[t] = "none")
            /\ (outcome[t] \in TerminalOutcomes) => (outcome'[t] = outcome[t])
            /\ (pc[t] = "done") =>
                  (pc'[t] = "done" /\ tagRes'[t] = tagRes[t])]_vars

\* A run is over in which one file was tagged, one was not watermarked and
\* one failed.
C20_Witness ==
    /\ mainPc = "summary"
    /\ \A t \in Tasks : pc[t] = "done"
    /\ \E t \in Tasks : outcome[t] = "MQA" /\ tagRes[t] = "Tagged"
    /\ \E t \in Tasks : outcome[t] = "NotMQA" /\ tagRes[t] = "none"
    /\ \E t \in Tasks : outcome[t] = "DecodeErr" /\ tagRes[t] = "none"

\* The answers of the metadata library that are tagging failures, and the
\* reason each is recorded under.
TagFailures ==
    {"ReadFail", "BlockFail", "WriteFail", "TagExc"}

TagFailureReason(r) ==
    CASE r = "ReadFail" -> ReasonTagRead
      [] r = "BlockFail" -> ReasonTagBlock
      [] r = "WriteFail" -> ReasonTagWrite
      [] r = "TagExc" -> ReasonTagExc

\* C21 (tagging failure does not downgrade): a task that is done and whose
\* tagging failed (chain not read, block not created, write failed, or an
\* exception) was detected, has its path recorded once under the reason of
\* that failure, and went through mqa_count++; at the summary matched counts
\* every detected file, those whose tagging failed included.
C21_TagFailureKeepsDetection ==
    /\ \A t \in Tasks :
          (tagRes[t] \in TagFailures /\ pc[t] \in {"inc_scanned", "done"}) =>
             /\ outcome[t] = "MQA"
             /\ Entries(TagFailureReason(tagRes[t]), PathOf(t)) = 1
    /\ mainPc \in {"summary", "exit"} =>
          /\ \A t \in Discovered : tagRes[t] \in TagFailures => pc[t] = "done"
          /\ mqa_count = Cardinality({t \in Discovered : outcome[t] = "MQA"})
          /\ mqa_count >= Cardinality({t \in Discovered : tagRes[t] \in TagFailures})

\* A run is over in which the tagging of two detected files failed, once on
\* the write and once on the read.
C21_Witness ==
    /\ mainPc = "summary"
    /\ ~dry_run
    /\ \E t \in Discovered : tagRes[t] = "WriteFail"
    /\ \E t \in Discovered : tagRes[t] = "ReadFail"
    /\ mqa_count = 2
    /\ Len(scan_errors[ReasonTagWrite]) = 1
    /\ Len(scan_errors[ReasonTagRead]) = 1

\* Path p is recorded in the ledger, under whatever reason.
Recorded(p) ==
    \E r \in Reasons : Entries(r, p) > 0

\* C22 (validation gate): once traversal and the file loop are
\* over, every path argument that does not exist, is not a regular file or
\* does not have the extension .flac is recorded in the ledger, as is every
\* file that failed header validation.
C22_EveryRejectedInputRecorded ==
    mainPc \in {"summary", "exit"} =>
       /\ \A i \in 1..Len(input_paths) : input_paths[i] # "flac" => Recorded(i)
       /\ \A t \in Discovered : outcome[t] \in HeaderFailures => Recorded(PathOf(t))

\* How many comments of the list cs have the field name `name`.
CountOf(cs, name) ==
    Cardinality({i \in 1..Len(cs) : cs[i][1] = name})

\* The field names of the comments of cs.
NamesOf(cs) ==
    {cs[i][1] : i \in 1..Len(cs)}

\* The last call of tagFile was not a dry run and did not fail.
TagSucceeded ==
    tagRes[1] \in {"Tagged", "Unchanged"}

\* C23 as stated (no duplicate tags): after a successful call of tagFile
\* that was not a dry run, the file carries exactly one MQAENCODER comment.
C23_ExactlyOneEncoderTag ==
    TagSucceeded => CountOf(comments, "MQAENCODER") = 1

\* C23 (no duplicate tags, amended): a successful call of tagFile that was
\* not a dry run keeps the comments the file had, in their order, and appends
\* one MQAENCODER comment if the file had none and one ORIGINALSAMPLERATE
\* comment if the rate is above 0 and the file had none; it appends nothing
\* else, so a name the file carried has as many entries after the call as
\* before it, and the file carries exactly one MQAENCODER comment unless it
\* carried several before the call.
C23_NoDuplicateTags ==
    [][(tcalls' = tcalls + 1 /\ tagRes'[1] \in {"Tagged", "Unchanged"}) =>
          /\ SubSeq(comments', 1, Len(comments)) = comments
          /\ CountOf(comments', "MQAENCODER") =
                IF HasEntry(comments, "MQAENCODER")
                THEN CountOf(comments, "MQAENCODER") ELSE 1
          /\ CountOf(comments', "ORIGINALSAMPLERATE") =
                IF HasEntry(comments, "ORIGINALSAMPLERATE")
                THEN CountOf(comments, "ORIGINALSAMPLERATE")
                ELSE IF original_rate > 0 THEN 1 ELSE 0
          /\ \A n \in NamesOf(comments) :
                CountOf(comments', n) = CountOf(comments, n)
          /\ NamesOf(comments') \subseteq
                NamesOf(comments) \cup {"MQAENCODER", "ORIGINALSAMPLERATE"}]_vars

\* tagFile was called with rate 0 on a file that carried a title only, and
\* wrote the MQAENCODER comment and no ORIGINALSAMPLERATE comment.
C23_Witness ==
    /\ ~dry_run
    /\ tagRes[1] = "Tagged"
    /\ original_rate = 0
    /\ writes = 1
    /\ comments = <<<<"TITLE", "t">>, <<"MQAENCODER", EncoderValue>>>>

\* C24 (default tagging): a call of tagFile that is not a dry run, is made
\* with the rate of an identified file on a file that carries neither tag,
\* and writes the file, leaves it with the comment MQAENCODER=MQA and with
\* an ORIGINALSAMPLERATE comment.
C24_DefaultTagValues ==
    [][(/\ tcalls' = tcalls + 1
        /\ ~dry_run
        /\ original_rate > 0
        /\ ~HasEntry(comments, "MQAENCODER")
        /\ ~HasEntry(comments, "ORIGINALSAMPLERATE")
        /\ tagRes'[1] = "Tagged") =>
          /\ \E i \in 1..Len(comments') : comments'[i] = <<"MQAENCODER", "MQA">>
          /\ HasEntry(comments', "ORIGINALSAMPLERATE")]_vars

\* C25 (exit code): main has returned only after traversal and the file loop
\* were over, and what it returned is 0, whatever the tasks found and
\* whatever the ledger holds.
C25_ExitCodeZero ==
    /\ mainPc = "exit" =>
          /\ exit_code = 0
          /\ TraversalOver
          /\ count = Len(files)
          /\ \A t \in Discovered : pc[t] = "done"
    /\ mainPc # "exit" => exit_code = -1

\* main returned after a run in which one path argument did not exist, one
\* file failed header validation and the tagging of the other failed.
C25_Witness ==
    /\ mainPc = "exit"
    /\ exit_code = 0
    /\ Len(scan_errors[ReasonMissing]) = 1
    /\ Len(files) = 2
    /\ \E t \in Discovered : outcome[t] = "BadHeader"
    /\ \E t \in Discovered : tagRes[t] = "WriteFail"
    /\ LedgerSize = 3

\* C30 (three-second bound): once STREAMINFO was read, at every point of
\* decode() and of the scan the number of samples buffered is at most three
\* times the sample rate.
C30_BufferedSamplesBounded ==
    dec_state # "UNINITIALIZED" =>
        /\ Len(samples) <= sample_rate * 3
        /\ decoded_samples <= sample_rate * 3

\* The status line that goes with a result: detected, not detected, error.
LineClass(r) ==
    CASE r = "MQA" -> "MQA"
      [] r = "NotMQA" -> "NOT MQA"
      [] OTHER -> "error"

\* C28 (status line): a task that is done has put exactly one status line
\* on the console, and a task that is done and Failed has put one there too.
C28_OneStatusLinePerTask ==
    \A t \in Tasks :
        pc[t] = "done" =>
           /\ Len(status_lines[t]) = 1
           /\ outcome[t] \in {"MQA", "NotMQA"} =>
                 status_lines[t][1] = LineClass(outcome[t])

RECURSIVE Closure(_)
Closure(S) ==
    LET open == {n \in S : tree.kind[n] = "dir" /\ tree.perm[n] = "ok"}
        next == S \cup UNION {Kids[d] : d \in open}
    IN  IF next = S THEN S ELSE Closure(next)

ReachedFrom(r) ==
    IF r = Missing THEN {} ELSE Closure({r})

\* How often node n is in the list fl.
CountIn(fl, n) ==
    Cardinality({i \in 1..Len(fl) : fl[i] = n})

\* From how many path arguments the traversal comes to node n.
RootsReaching(n) ==
    Cardinality({i \in 1..Len(scan_roots) : n \in ReachedFrom(scan_roots[i])})

\* C26 (permission denied): when traversal is over, every entry or directory
\* the traversal came to and that the caller may not read, or may not ask
\* the status of, is recorded in the ledger.
C26_DeniedEntriesRecorded ==
    ScanDone =>
       \A i \in 1..Len(scan_roots) :
          \A n \in ReachedFrom(scan_roots[i]) :
             tree.perm[n] # "ok" => Recorded(n)

\* C27 as stated (discovery order): a second run on the same tree with the
\* same path arguments discovers the files in the order of the first run.
C27_SameOrderEveryRun ==
    (ScanDone /\ scan_run > 1) => files = prev_files

\* C27 (discovery, amended): when traversal is over, a regular .flac file
\* whose status can be had is in `files` once for each path argument from
\* which the traversal comes to it, at whatever depth, and nothing else is in
\* `files`; a file with another extension is neither in `files` nor recorded
\* in the ledger; scanned_count was not touched; a second run on the same
\* tree discovers the same files as often, in an order that may differ
\* inside a directory.
C27_EveryFlacOncePerPath ==
    ScanDone =>
       /\ \A n \in Nodes :
             CountIn(files, n) =
                IF tree.kind[n] = "flac" /\ tree.perm[n] = "ok"
                THEN RootsReaching(n) ELSE 0
       /\ Len(files) <= Cardinality(Nodes) * Len(scan_roots)
       /\ \A i \in 1..Len(files) : files[i] \in Nodes
       /\ \A n \in Nodes :
             (tree.kind[n] = "other" /\ tree.perm[n] = "ok") => ~Recorded(n)
       /\ scanned_count = 0
       /\ scan_run > 1 =>
             \A n \in Nodes : CountIn(files, n) = CountIn(prev_files, n)

\* Two runs over directory 1 and then directory 3 are over: file 5 of
\* directory 3 was found twice in each and file 2 once, file 4 has another
\* extension, nothing was recorded, and the two orders differ.
C27_Witness ==
    /\ ScanDone
    /\ scan_run = 2
    /\ scan_roots = <<1, 3>>
    /\ \A n \in Nodes : tree.perm[n] = "ok"
    /\ tree.kind[2] = "flac"
    /\ tree.kind[4] = "other"
    /\ tree.kind[5] = "flac"
    /\ files = <<2, 5, 5>>
    /\ prev_files = <<5, 2, 5>>
    /\ LedgerSize = 0

\* The 4-bit value the stream carries on plane k in the samples 3..6 after
\* sample i, first sample most significant.
RateCodeAt(i, k) ==
    8 * PlaneBit(samples[i + 4], Pos + k) + 4 * PlaneBit(samples[i + 5], Pos + k)
    + 2 * PlaneBit(samples[i + 6], Pos + k) + PlaneBit(samples[i + 7], Pos + k)

\* The 5-bit value it carries on plane k in the samples 29..33 after sample
\* i, first sample most significant.
ProvAt(i, k) ==
    16 * PlaneBit(samples[i + 30], Pos + k) + 8 * PlaneBit(samples[i + 31], Pos + k)
    + 4 * PlaneBit(samples[i + 32], Pos + k) + 2 * PlaneBit(samples[i + 33], Pos + k)
    + PlaneBit(samples[i + 34], Pos + k)

\* The planes whose last 36 bits up to sample i are the word.
PlanesAt(i) ==
    {k \in 0..2 : WindowAt(i, k)}

\* C31 (priority of the offsets): when detect() returned after a match with
\* its payload inside the samples, the match is attributed to the lowest
\* plane that carries the word at the matched sample, and the rate and the
\* studio flag are those of the payload of that plane, whatever the other
\* planes that carry the word there are followed by.
C31_LowestOffsetWins ==
    dpc = "returned" /\ midx # -1 /\ InBounds(midx + 33) =>
        /\ PlanesAt(midx) # {}
        /\ moff \in PlanesAt(midx)
        /\ \A k \in PlanesAt(midx) : moff <= k
        /\ original_sample_rate = TableRate(RateCodeAt(midx, moff))
        /\ isMQAStudio_ <=> (ProvAt(midx, moff) > 8)

\* The three planes carry the word at the same sample, each with a payload
\* of its own: the match is attributed to plane 0 and the rate is that of
\* code 1, not that of the codes 10 and 4 of the other planes.
C31_Witness ==
    /\ dpc = "returned"
    /\ midx = 35
    /\ InBounds(midx + 33)
    /\ PlanesAt(midx) = {0, 1, 2}
    /\ moff = 0
    /\ RateCodeAt(midx, 1) = 10
    /\ RateCodeAt(midx, 2) = 4
    /\ original_sample_rate = 48000
    /\ ~isMQAStudio_

C33_PayloadInRange ==
    /\ orsf \in 0..15
    /\ provenance \in 0..31
    /\ error_message_ # "Exception: Invalid bytecode"
    /\ dpc = "returned" /\ midx # -1 /\ error_message_ = "" => retval

\* A match whose payload bits are all 1: the largest rate code and the
\* largest provenance value, decoded without an exception.
C33_Witness ==
    /\ dpc = "returned"
    /\ midx # -1
    /\ orsf = 15
    /\ provenance = 31
    /\ original_sample_rate = 12288000
    /\ error_message_ = ""
    /\ retval

\* C34 (unsupported formats never reach the scanner): in every reachable
\* state a non-empty sample buffer implies channels = 2 and bits per sample
\* in {16, 24}; while the format is unsupported no sample is buffered and no
\* iteration of the scanner loop has run or matched; and whenever the
\* scanner has a sample to read, the base position bps - 16 is 0 or 8,
\* neither negative nor wrapped.
C34_UnsupportedNeverScanned ==
    /\ samples # <<>> => (channels = 2 /\ bps \in {16, 24})
    /\ (channels # 2 \/ bps \notin {16, 24}) =>
          /\ samples = <<>>
          /\ decoded_samples = 0
          /\ idx = 0
          /\ midx = -1
          /\ ~isMQA_
    /\ (dpc = "scan" /\ idx < Len(samples)) => bps - 16 \in {0, 8}

\* A stereo 8-bit file with audio frames: write_callback refused the first
\* frame, nothing was buffered, and detect() returned false without a scan.
C34_Witness ==
    /\ dpc = "returned"
    /\ channels = 2
    /\ bps = 8
    /\ flac.audio # <<>>
    /\ dec_error = ReasonUnsupported
    /\ samples = <<>>
    /\ idx = 0
    /\ retval = FALSE

\* C35 (termination of decode): under a decoder each of whose steps does
\* something (fair scheduling of the steps), the loop of decode() is left
\* after finitely many steps, and a step that returns failure without a
\* stored message is the last one.
C35_DecodeLoopTerminates ==
    /\ (dpc = "loop") ~> (dpc # "loop")
    /\ [][(dpc = "loop" /\ LoopCond /\ ~ok' /\ dec_error' = "") => ~LoopCond']_vars

\* C36 (one task per file): when traversal is over, whatever the list of
\* path arguments is, no file is in `files` more than once, so that the
\* drivers, which start one task for each element of `files`, never count
\* or tag a file twice.
C36_NoFileAdmittedTwice ==
    ScanDone => \A n \in Nodes : CountIn(files, n) <= 1

\* C37 (consistent result): once detect() returned, the returned value equals
\* isMQA(), isMQAStudio() implies isMQA(), a non-zero originalSampleRate()
\* implies isMQA(), and a non-empty getErrorMessage() implies that detect()
\* returned false.
C37_ResultConsistent ==
    dpc = "returned" =>
        /\ retval = isMQA_
        /\ isMQAStudio_ => isMQA_
        /\ original_sample_rate # 0 => isMQA_
        /\ error_message_ # "" => ~retval

\* The ledger reason that goes with a result of validation or detection.
OutcomeReason(r) ==
    CASE r = "BadHeader"    -> ReasonBadHeader
      [] r = "CannotOpen"   -> ReasonCannotOpen
      [] r = "TooSmall"     -> ReasonTooSmall
      [] r = "CtorThrows"   -> ReasonCtor
      [] r = "DetectThrows" -> ReasonDetectThrew
      [] r = "Unsupported"  -> ReasonUnsupported
      [] OTHER              -> ReasonDecode

\* The reasons under which tagFile records a failure.
TagReasons ==
    {ReasonTagRead, ReasonTagBlock, ReasonTagWrite, ReasonTagExc}

\* C38 (dry run does not influence detection): at the end of every run,
\* with or without --dry-run, scanned, matched and the class of every file
\* are given by the discovered files and by what validation and detection
\* answered for them alone: scanned is the number of files, matched the
\* number of files detected, a detected file has the MQA line, a
\* not-detected one the NOT MQA line, a failed one no line and one ledger
\* entry under the reason of its failure. Two runs with the same files and
\* the same answers, one of them a dry run, therefore end alike; only
\* ledger entries of tagging, absent from a dry run, can differ.
C38_DryRunSameDetection ==
    mainPc \in {"summary", "exit"} =>
        /\ scanned_count = Len(files)
        /\ mqa_count = NumWith({"MQA"})
        /\ \A t \in Discovered :
              /\ pc[t] = "done"
              /\ status_lines[t] =
                    IF LineClass(outcome[t]) = "error" THEN <<>>
                    ELSE <<LineClass(outcome[t])>>
              /\ \A r \in Reasons \ TagReasons :
                    Entries(r, PathOf(t)) =
                       IF LineClass(outcome[t]) = "error" /\ r = OutcomeReason(outcome[t])
                       THEN 1 ELSE 0
        /\ dry_run => \A r \in TagReasons : scan_errors[r] = <<>>

\* A run that is not a dry run is over with one file detected whose
\* tagging failed on the write, one not detected and one of an unsupported
\* format: matched is 1 and scanned is 3, as in the dry run over the same
\* files.
C38_Witness ==
    /\ mainPc = "exit"
    /\ ~dry_run
    /\ Len(files) = 3
    /\ \E t \in Discovered : outcome[t] = "MQA" /\ tagRes[t] = "WriteFail"
    /\ NumWith({"NotMQA"}) = 1
    /\ NumWith({"Unsupported"}) = 1
    /\ mqa_count = 1
    /\ scanned_count = 3
    /\ Len(scan_errors[ReasonTagWrite]) = 1

\* C39 (existing comments are kept): a call of tagFile leaves every comment
\* the file held in its place with its name and value, an MQAENCODER or
\* ORIGINALSAMPLERATE entry whose value differs from the detected one
\* included, and only appends; when the metadata chain cannot be read the
\* file is left as it was and exactly one entry is added to the ledger,
\* under the reason of that failure.
C39_ExistingCommentsKept ==
    [][(tcalls' = tcalls + 1) =>
          /\ Len(comments') >= Len(comments)
          /\ \A i \in 1..Len(comments) : comments'[i] = comments[i]
          /\ \A i \in (Len(comments) + 1)..Len(comments') :
                comments'[i][1] \in {"MQAENCODER", "ORIGINALSAMPLERATE"}
          /\ (tagRes'[1] = "ReadFail") =>
                /\ comments' = comments
                /\ has_vc' = has_vc
                /\ writes' = writes
                /\ Len(scan_errors'[ReasonTagRead]) = Len(scan_errors[ReasonTagRead]) + 1
                /\ \A r \in Reasons \ {ReasonTagRead} : scan_errors'[r] = scan_errors[r]
      ]_vars

\* A file that held ORIGINALSAMPLERATE=44100 was tagged with the detected
\* rate 96000: the entry kept its value and MQAENCODER was appended.
C39_Witness ==
    /\ tcalls >= 1
    /\ ~dry_run
    /\ original_rate = 96000
    /\ writes = 1
    /\ comments = <<<<"ORIGINALSAMPLERATE", "44100">>, <<"MQAENCODER", EncoderValue>>>>

====
